---- MODULE Spec2Model ----
(***************************************************************************)
(* A model of the transfer and wallet core of safe_network:                *)
(*   - SignedSpend::verify            (sn_transfers/cashnotes)             *)
(*   - Client::get_spend_from_network (sn_client/api.rs)                   *)
(*   - WatchOnlyWallet                (sn_transfers/wallet/watch_only.rs)  *)
(*   - the record reads of the client and merge_split_register_records     *)
(*                                     (sn_client/api.rs)                  *)
(*   - Client::verify_spend           (sn_client/audit/mod.rs)             *)
(*   - Client::follow_spend and redeem_royalties (sn_client/audit/mod.rs)  *)
(*   - Client::new, its tasks and handle_network_event (sn_client/api.rs)  *)
(*   - Client::verify_uploaded_chunks (sn_client/api.rs)                   *)
(*   - get_peers_from_args            (sn_peers_acquisition/lib.rs)        *)
(*   - Client::network_store_spend and create_and_pay_for_register         *)
(*                                     (sn_client/api.rs)                  *)
(* Each part has its own specification over the shared variables; the      *)
(* variables of the other parts stay at their initial value.               *)
(***************************************************************************)
EXTENDS Integers, Sequences, FiniteSets, TLC

VARIABLES
    \* ---- SignedSpend::verify (one call)
    signed_spend,       \* self
    spent_tx_hash,      \* the argument of verify
    verify_result,      \* None before the call, then its Result
    \* ---- Client::get_spend_from_network (one call)
    address,            \* the SpendAddress asked for
    record_response,    \* what network.get_record_from_network answers
    get_spend_result,   \* None before the call, then its Result
    \* ---- the wallet directory on disk
    disk_main_pubkey,   \* file main_pubkey: None or a MainPubkey
    disk_wallet,        \* file wallet: None or a KeyLessWallet
    disk_cash_notes,    \* files cash_notes/<unique_pubkey>: the set of ids
    lock_holder,        \* who holds the exclusive lock on wallet.lock
    \* ---- each process that uses the directory
    wallet,             \* its WatchOnlyWallet (None before it opened one)
    pc,                 \* the statement it is at
    call,               \* the public operation in progress and its arguments
    idx,                \* deposit_and_store_to_disk: index of the next note
    loaded,             \* load_from: the main_pubkey it settled on
    result,             \* the Result of the last public operation
    ops_left,           \* how many more operations it may start
    \* ---- history of the operation in progress (observation only)
    steps,              \* the steps the current operation has executed
    before,             \* the in-memory wallet and the disk when it started
    dirty,              \* the files whose content it has changed
    repeated,           \* whether it repeats the operation before it
    \* ---- merge_split_register_records (one call)
    result_map,         \* map.values() in the order the HashMap yields them
    merged,             \* None before the call, then its Result
    \* ---- a read of the client: get_chunk, get_spend_from_network or
    \*      get_signed_register_from_network (one call)
    read_op,            \* which read, and the address asked for
    read_response,      \* what network.get_record_from_network answers
    read_result,        \* None before the call, then its Result
    \* ---- Client::verify_spend (one call)
    spend_graph,        \* the spends and transactions the network holds
    to_genesis,         \* the argument of verify_spend
    txs_to_verify,      \* the transactions of this generation still to do
    next_gen_tx,        \* the parents collected for the next generation
    verified_tx,        \* the hashes of the transactions verified so far
    depth,              \* the generations completed
    audit_pc,           \* "start", "while", "for" or "done"
    audit_result,       \* None before the return, then the WalletResult
    processed,          \* history: the transactions processed, in order
    \* ---- Client::follow_spend (one call after the other)
    follow_net,         \* the outputs and spends the network holds
    spend_addr,         \* the argument spend_addr (as its key)
    find_royalties,     \* the argument find_royalties
    redeem_outcome,     \* what redeem_royalties meets at root_dir
    txs_to_follow,      \* the frontier: the transactions of this generation
    follow_todo,        \* the part of the frontier the for loop has not done
    descendant_tx,      \* the transaction of the current turn of the loop
    in_flight,          \* the keys whose fetch has started and not completed
    spends_res,         \* the results of the fetches that completed
    follow_next_gen_tx, \* next_gen_tx of follow_spend
    next_gen_utxos,     \* the unspent outputs found in this generation
    all_utxos,          \* the unspent outputs of the generations completed
    follow_verified_tx, \* verified_tx of follow_spend
    gen,                \* the generations completed
    follow_pc,          \* "start", "while", "for", "join", "done", ...
    follow_result,      \* None before the return, then the WalletResult
    wallet_loaded,      \* history: LocalWallet::load_from(root_dir) was called
    wallet_stored,      \* history: deposit_and_store_to_disk was called
    joined_in_gen,      \* history: the fetches joined in this generation
    follow_calls,       \* history: the calls that returned, with their result
    fetches_of,         \* history: per transaction, the turns of the for loop
    \* ---- Client::new, the tasks it spawns and the two channels
    connection_timeout, \* the argument connection_timeout
    new_pc,             \* the statement Client::new is at
    running,            \* the spawned tasks that run
    events_left,        \* how many more events the swarm driver may send
    network_events,     \* the NetworkEvent channel, driver to event handler
    peers_added,        \* client_clone.peers_added
    subscribed,         \* client_events_rx exists
    client_events_rx,   \* the events broadcast and not yet received by it
    is_connected,       \* the local of the connect loop
    new_result,         \* None before the return, then the Result
    inactive_left,      \* how many more inactivity timeouts may elapse
    broadcast_log,      \* history: every call of events_channel.broadcast
    observed,           \* history: the events the connect loop received
    handled,            \* history: the network events handled, in order
    \* ---- Client::verify_uploaded_chunks (one call)
    chunks_paths,       \* the argument: per chunk, what its task will meet
    batch_size,         \* the argument batch_size
    batch_start,        \* the index of the first chunk of the current batch
    verify_handles,     \* the state of the task of each chunk
    failed_chunks,      \* the local failed_chunks
    upload_pc,          \* "batch", "join", "done" or "dropped"
    upload_result,      \* None before the return, then the Result
    ran_detached,       \* history: tasks that made a step after the call ended
    \* ---- a SignedSpend changed after it was signed
    altered,            \* signed_spend with one field of its Spend replaced
    \* ---- get_peers_from_args (one call)
    args,               \* the argument: PeersArgs {first, peers}
    features,           \* the cargo features the crate is built with
    safe_peers,         \* std::env::var(SAFE_PEERS_ENV)
    network_contacts,   \* what get_network_contacts(&args) returns
    peers_result,       \* None before the return, then the Result
    \* ---- Client::network_store_spend and create_and_pay_for_register
    verify_store,       \* the argument verify_store
    closest_peers,      \* what network.get_closest_peers returns
    store_outcome,      \* what the call meets on its way
    put_call,           \* history: the (record, put_cfg) put_record got
    store_result,       \* None before the return, then the Result
    create_outcomes,    \* what each create_online and verification meets
    attempts,           \* history: (cost, royalties) of each create_online
    verify_reads,       \* history: how many verify_register_stored calls
    last_verify,        \* history: the result of the last of them
    total_cost,         \* the local total_cost
    total_royalties,    \* the local total_royalties
    register_pc,        \* "create", "verify", "retry" or "done"
    register_result     \* None before the return, then the Result

spend_vars  == <<signed_spend, spent_tx_hash, verify_result>>
get_vars    == <<address, record_response, get_spend_result>>
disk_vars   == <<disk_main_pubkey, disk_wallet, disk_cash_notes, lock_holder>>
proc_vars   == <<wallet, pc, call, idx, loaded, result, ops_left>>
hist_vars   == <<steps, before, dirty, repeated>>
wallet_vars == <<disk_vars, proc_vars, hist_vars>>
merge_vars  == <<result_map, merged>>
read_vars   == <<read_op, read_response, read_result>>
audit_vars  == <<spend_graph, to_genesis, txs_to_verify, next_gen_tx,
                 verified_tx, depth, audit_pc, audit_result, processed>>
follow_vars == <<follow_net, spend_addr, find_royalties, redeem_outcome,
                  txs_to_follow, follow_todo, descendant_tx, in_flight,
                  spends_res, follow_next_gen_tx, next_gen_utxos, all_utxos,
                  follow_verified_tx, gen, follow_pc, follow_result,
                  wallet_loaded, wallet_stored, joined_in_gen, follow_calls,
                  fetches_of>>
new_vars    == <<connection_timeout, new_pc, running, events_left,
                 network_events, peers_added, subscribed, client_events_rx,
                 is_connected, new_result, inactive_left, broadcast_log,
                 observed, handled>>
upload_vars == <<chunks_paths, batch_size, batch_start, verify_handles,
                 failed_chunks, upload_pc, upload_result, ran_detached>>
peers_vars  == <<args, features, safe_peers, network_contacts, peers_result>>
store_vars  == <<closest_peers, store_outcome, put_call, store_result>>
register_vars == <<create_outcomes, attempts, verify_reads, last_verify,
                   total_cost, total_royalties, register_pc, register_result>>
call_vars   == <<altered, peers_vars, verify_store, store_vars, register_vars>>
task_vars   == <<follow_vars, new_vars, upload_vars, call_vars>>
client_vars == <<merge_vars, read_vars, audit_vars, task_vars>>
vars        == <<spend_vars, get_vars, wallet_vars, client_vars>>

None == [tag |-> "None"]
NoKey == "NoKey"

(***************************************************************************)
(* Bounds of the model.                                                    *)
(***************************************************************************)
MaxAmount == 1      \* NanoTokens range over 0..MaxAmount
MaxIO     == 2      \* inputs / outputs of a Transaction
MaxSpends == 2      \* SignedSpends in one fetched Spend record
MaxNotes  == 2      \* cash notes handed to one deposit call
MaxOps    == 2      \* operations of the single wallet user after it opened
MaxRecords == 3     \* records of one SplitRecord result map

(***************************************************************************)
(* Transfer model: Transaction, Spend, SignedSpend.                        *)
(***************************************************************************)
UniquePubkeys == {"k1", "k2"}
Amounts       == 0..MaxAmount

\* an Input or an Output of a Transaction: {unique_pubkey, amount}
IOEntry == [unique_pubkey : UniquePubkeys, amount : Amounts]
IOLists == UNION {[1..n -> IOEntry] : n \in 0..MaxIO}

\* Transaction::hash: a collision-free digest of inputs and outputs
TxHash(tx) == <<"Hash", tx.inputs, tx.outputs>>

\* Spend::to_bytes: unique_pubkey, spent_tx.hash(), reason, token,
\* parent_tx.hash() -- network_royalties is not part of it
to_bytes(spend) ==
    <<spend.unique_pubkey, TxHash(spend.spent_tx), spend.reason, spend.token,
      TxHash(spend.parent_tx)>>

\* a signature made with the secret key of `signer` over `msg`
Sign(signer, msg) == [signer |-> signer, msg |-> msg]

\* UniquePubkey::verify(sig, msg)
pubkey_verify(pk, sig, msg) == sig.signer = pk /\ sig.msg = msg

\* iter().find(|e| e.unique_pubkey == key).map(|e| e.amount)
\*       .unwrap_or(NanoTokens::zero())
FindAmountOrZero(list, key) ==
    LET hits == {i \in 1..Len(list) : list[i].unique_pubkey = key}
    IN  IF hits = {} THEN 0
        ELSE list[CHOOSE i \in hits : \A j \in hits : i <= j].amount

Ok == [tag |-> "Ok"]

\* SignedSpend::verify(&self, spent_tx_hash)
verify(self, expected) ==
    LET spend          == self.spend
        claimed_value  == spend.token
        creation_value == FindAmountOrZero(spend.parent_tx.outputs, spend.unique_pubkey)
        spent_value    == FindAmountOrZero(spend.spent_tx.inputs, spend.unique_pubkey)
    IN  IF expected # TxHash(spend.spent_tx)
        THEN [tag |-> "TransactionHashMismatch"]
        ELSE IF claimed_value # creation_value \/ creation_value # spent_value
        THEN [tag |-> "InvalidSpendValue", key |-> spend.unique_pubkey]
        ELSE IF pubkey_verify(spend.unique_pubkey, self.derived_key_sig, to_bytes(spend))
        THEN Ok
        ELSE [tag |-> "InvalidSpendSignature", key |-> spend.unique_pubkey]

(***************************************************************************)
(* Client::get_spend_from_network.  The DHT layer is a collaborator: its   *)
(* answer to get_record_from_network(key, Majority) is an input.           *)
(***************************************************************************)
RecordKinds == {"Chunk", "ChunkWithPayment", "Spend", "Register"}
BadHeader   == "BadHeader"      \* RecordHeader::from_record fails
\* a record is [kind, decodes, value]: decodes says whether
\* try_deserialize_record::<Vec<SignedSpend>> succeeds, value is its result

\* SpendAddress::from_unique_pubkey
from_unique_pubkey(pk) == <<"SpendAddress", pk>>
SpendAddresses == {from_unique_pubkey(pk) : pk \in UniquePubkeys}

CouldNotVerifyTransfer(why, sigs) ==
    [tag |-> "CouldNotVerifyTransfer", why |-> why, sigs |-> sigs]

\* the mutant of map_get_record_err: every error is a missing record
every_error_is_missing(addr, err) ==
    [tag |-> "MissingSpendRecord", address |-> addr]

\* .map_err(..): RecordNotFound is the only error that becomes
\* MissingSpendRecord
map_get_record_err(addr, err) ==
    IF err = "RecordNotFound"
    THEN [tag |-> "MissingSpendRecord", address |-> addr]
    ELSE CouldNotVerifyTransfer("failed to get spend", <<>>)

\* the mutant of single_spend: the address of the fetched spend is not compared
single_spend_any_address(addr, spend) ==
    IF verify(spend, TxHash(spend.spend.spent_tx)).tag = "Ok"
    THEN [tag |-> "Ok", spend |-> spend]
    ELSE CouldNotVerifyTransfer("Spend failed verification", <<>>)

\* the arm `1 =>` of the match on deserialized_record.len()
single_spend(addr, spend) ==
    IF addr = from_unique_pubkey(spend.spend.unique_pubkey)
    THEN IF verify(spend, TxHash(spend.spend.spent_tx)).tag = "Ok"
         THEN [tag |-> "Ok", spend |-> spend]
         ELSE CouldNotVerifyTransfer("Spend failed verification", <<>>)
    ELSE CouldNotVerifyTransfer("mismatched the expected one", <<>>)

\* the mutant of several_spends: the first spend of the record is returned
several_spends_take_first(addr, spends) == single_spend(addr, spends[1])

\* the arm `_ =>`: one = remove(0), two = remove(0)
several_spends(addr, spends) ==
    CouldNotVerifyTransfer("Found double spend",
        <<spends[1].derived_key_sig, spends[2].derived_key_sig>>)

get_spend_from_network(addr, response) ==
    IF response.tag = "Err" THEN map_get_record_err(addr, response.err)
    ELSE IF response.kind = BadHeader
    THEN CouldNotVerifyTransfer("Can't parse RecordHeader", <<>>)
    ELSE IF response.kind # "Spend"
    THEN [tag |-> "RecordKindMismatch", expected |-> "Spend"]
    ELSE IF ~response.decodes
    THEN CouldNotVerifyTransfer("Can't deserialize record", <<>>)
    ELSE IF Len(response.value) = 0
    THEN CouldNotVerifyTransfer("Fetched record shows no spend", <<>>)
    ELSE IF Len(response.value) = 1
    THEN single_spend(addr, response.value[1])
    ELSE several_spends(addr, response.value)

(***************************************************************************)
(* The inputs of the two pure operations.                                  *)
(***************************************************************************)
\* the transaction a cash note is created in and the one it is spent in
ParentTxs == [inputs : {<<>>}, outputs : IOLists]
SpentTxs  == [inputs : IOLists, outputs : {<<>>}]

\* the spends of a key between a creating and a spending transaction
SpendsOver(parent_txs, spent_txs) ==
    [unique_pubkey : UniquePubkeys, spent_tx : spent_txs, reason : {0},
     token : Amounts, parent_tx : parent_txs, network_royalties : {<<>>}]

OtherKey(pk) == CHOOSE k \in UniquePubkeys : k # pk

\* the signatures tried on a spend: the owner's, another key's, and the
\* owner's over a spend with another token
Signatures(spend) ==
    { Sign(spend.unique_pubkey, to_bytes(spend)),
      Sign(OtherKey(spend.unique_pubkey), to_bytes(spend)),
      Sign(spend.unique_pubkey,
           to_bytes([spend EXCEPT !.token = (@ + 1) % (MaxAmount + 1)])) }

SignedSpendsOf(spends) ==
    UNION { {[spend |-> s, derived_key_sig |-> sig] : sig \in Signatures(s)}
            : s \in spends }

\* a small pool of spends for fetched records: per key two valid spends of
\* the same cash note (a double spend), one with a bad signature and one
\* whose value differs from its transactions
PoolTx(pk, amount, n) ==
    [inputs  |-> [i \in 1..n |-> [unique_pubkey |-> pk, amount |-> amount]],
     outputs |-> <<>>]
PoolParent(pk, amount) ==
    [inputs  |-> <<>>,
     outputs |-> <<[unique_pubkey |-> pk, amount |-> amount]>>]
PoolSpend(pk, token, n) ==
    [unique_pubkey |-> pk, spent_tx |-> PoolTx(pk, 1, n), reason |-> 0,
     token |-> token, parent_tx |-> PoolParent(pk, 1),
     network_royalties |-> <<>>]
Signed(spend, signer) ==
    [spend |-> spend, derived_key_sig |-> Sign(signer, to_bytes(spend))]
SpendPool ==
    UNION { { Signed(PoolSpend(pk, 1, 1), pk),
              Signed(PoolSpend(pk, 1, 2), pk),
              Signed(PoolSpend(pk, 1, 1), OtherKey(pk)),
              Signed(PoolSpend(pk, 0, 1), pk) } : pk \in UniquePubkeys }

SpendRecords == UNION {[1..n -> SpendPool] : n \in 0..MaxSpends}

Responses ==
    {[tag |-> "Err", err |-> e] : e \in {"RecordNotFound", "SplitRecord", "Other"}}
    \cup {[tag |-> "Record", kind |-> k, decodes |-> FALSE, value |-> <<>>]
            : k \in RecordKinds \cup {BadHeader}}
    \cup {[tag |-> "Record", kind |-> "Spend", decodes |-> TRUE, value |-> v]
            : v \in SpendRecords}

(***************************************************************************)
(* Initial values of the three parts.                                      *)
(***************************************************************************)
SpendIdle ==
    /\ signed_spend = None /\ spent_tx_hash = None /\ verify_result = None
GetIdle ==
    /\ address = None /\ record_response = None /\ get_spend_result = None
WalletIdle ==
    /\ disk_main_pubkey = NoKey /\ disk_wallet = None /\ disk_cash_notes = {}
    /\ lock_holder = 0
    /\ wallet = <<>> /\ pc = <<>> /\ call = <<>> /\ idx = <<>>
    /\ loaded = <<>> /\ result = <<>> /\ ops_left = <<>>
    /\ steps = <<>> /\ before = <<>> /\ dirty = <<>> /\ repeated = <<>>

MergeIdle == result_map = None /\ merged = None
ReadIdle  == read_op = None /\ read_response = None /\ read_result = None
AuditIdle ==
    /\ spend_graph = None /\ to_genesis = FALSE
    /\ txs_to_verify = {} /\ next_gen_tx = {} /\ verified_tx = {}
    /\ depth = 0 /\ audit_pc = "off" /\ audit_result = None
    /\ processed = <<>>
FollowIdle ==
    /\ follow_net = None /\ spend_addr = NoKey /\ find_royalties = FALSE
    /\ redeem_outcome = "unused"
    /\ txs_to_follow = {} /\ follow_todo = {} /\ descendant_tx = "none"
    /\ in_flight = {} /\ spends_res = {}
    /\ follow_next_gen_tx = {} /\ next_gen_utxos = {} /\ all_utxos = {}
    /\ follow_verified_tx = {} /\ gen = 0
    /\ follow_pc = "off" /\ follow_result = None
    /\ wallet_loaded = FALSE /\ wallet_stored = FALSE
    /\ joined_in_gen = {} /\ follow_calls = <<>>
    /\ fetches_of = <<>>
NewIdle ==
    /\ connection_timeout = None /\ new_pc = "off" /\ running = {}
    /\ events_left = 0 /\ network_events = <<>> /\ peers_added = 0
    /\ subscribed = FALSE /\ client_events_rx = <<>>
    /\ is_connected = FALSE /\ new_result = None /\ inactive_left = 0
    /\ broadcast_log = <<>> /\ observed = <<>> /\ handled = <<>>
UploadIdle ==
    /\ chunks_paths = <<>> /\ batch_size = 1 /\ batch_start = 1
    /\ verify_handles = <<>> /\ failed_chunks = <<>>
    /\ upload_pc = "off" /\ upload_result = None /\ ran_detached = {}
PeersIdle ==
    /\ args = None /\ features = {} /\ safe_peers = None
    /\ network_contacts = None /\ peers_result = None
StoreIdle ==
    /\ closest_peers = None /\ store_outcome = "unused" /\ put_call = None
    /\ store_result = None
RegisterIdle ==
    /\ create_outcomes = <<>> /\ attempts = <<>> /\ verify_reads = 0
    /\ last_verify = None
    /\ total_cost = 0 /\ total_royalties = 0
    /\ register_pc = "off" /\ register_result = None
CallIdle ==
    /\ altered = None /\ PeersIdle /\ verify_store = FALSE
    /\ StoreIdle /\ RegisterIdle
TaskIdle   == FollowIdle /\ NewIdle /\ UploadIdle /\ CallIdle
ClientIdle == MergeIdle /\ ReadIdle /\ AuditIdle /\ TaskIdle

(***************************************************************************)
(* SpecVerify: one call of SignedSpend::verify on any signed spend.        *)
(***************************************************************************)
InitVerify ==
    /\ signed_spend \in SignedSpendsOf(SpendsOver(ParentTxs, SpentTxs))
    /\ spent_tx_hash \in {TxHash(signed_spend.spend.spent_tx),
                          TxHash(signed_spend.spend.parent_tx)}
    /\ verify_result = None
    /\ GetIdle /\ WalletIdle /\ ClientIdle

Verify ==
    /\ verify_result = None
    /\ verify_result' = verify(signed_spend, spent_tx_hash)
    /\ UNCHANGED <<signed_spend, spent_tx_hash, get_vars, wallet_vars,
                   client_vars>>

NextVerify == Verify
SpecVerify == InitVerify /\ [][NextVerify]_vars

(***************************************************************************)
(* SpecGetSpend: one call of get_spend_from_network on any answer.         *)
(***************************************************************************)
InitGetSpend ==
    /\ address \in SpendAddresses
    /\ record_response \in Responses
    /\ get_spend_result = None
    /\ SpendIdle /\ WalletIdle /\ ClientIdle

GetSpend ==
    /\ get_spend_result = None
    /\ get_spend_result' = get_spend_from_network(address, record_response)
    /\ UNCHANGED <<address, record_response, spend_vars, wallet_vars,
                   client_vars>>

NextGetSpend == GetSpend
SpecGetSpend == InitGetSpend /\ [][NextGetSpend]_vars

(***************************************************************************)
(* Claims about SignedSpend::verify (SpecVerify).                          *)
(***************************************************************************)
HasEntry(list, key) == \E i \in 1..Len(list) : list[i].unique_pubkey = key

Verified == verify_result # None

HashMatches == spent_tx_hash = TxHash(signed_spend.spend.spent_tx)

\* the key is an output of parent_tx and an input of spent_tx, and both
\* amounts are the token of the spend
ValueConserved ==
    LET spend == signed_spend.spend
    IN  /\ HasEntry(spend.parent_tx.outputs, spend.unique_pubkey)
        /\ HasEntry(spend.spent_tx.inputs, spend.unique_pubkey)
        /\ spend.token = FindAmountOrZero(spend.parent_tx.outputs, spend.unique_pubkey)
        /\ spend.token = FindAmountOrZero(spend.spent_tx.inputs, spend.unique_pubkey)

SignatureValid ==
    pubkey_verify(signed_spend.spend.unique_pubkey, signed_spend.derived_key_sig,
                  to_bytes(signed_spend.spend))

\* C1: verify(h) returns Ok if and only if h is the hash of spent_tx, the
\* token equals the amount of the key's output in parent_tx and of the key's
\* input in spent_tx, and the signature is valid; otherwise it is an error.
C1_VerifyOkIff ==
    Verified =>
        ((verify_result = Ok) <=> (HashMatches /\ ValueConserved /\ SignatureValid))

\* C2: whenever verify returns Ok the key is an output of parent_tx and an
\* input of spent_tx with the token's amount, and a spend whose key is
\* missing from either transaction is rejected with InvalidSpendValue (after
\* the hash check), for any token including zero.
C2_OkImpliesKeyInBothTxs ==
    Verified =>
        /\ (verify_result = Ok => ValueConserved)
        /\ LET spend == signed_spend.spend
           IN  ( /\ HashMatches
                 /\ \/ ~HasEntry(spend.parent_tx.outputs, spend.unique_pubkey)
                    \/ ~HasEntry(spend.spent_tx.inputs, spend.unique_pubkey) )
               => verify_result.tag = "InvalidSpendValue"

(***************************************************************************)
(* Claims about get_spend_from_network (SpecGetSpend).                     *)
(***************************************************************************)
Fetched == get_spend_result # None

IsSpendRecord ==
    /\ record_response.tag = "Record"
    /\ record_response.kind = "Spend"
    /\ record_response.decodes

\* C3: a spend returned as Ok verifies against its own spent_tx hash and
\* lives at the requested address; a fetched Spend record with no spend, or
\* with one spend that fails either check, gives CouldNotVerifyTransfer.
C3_ReturnedSpendIsVerified ==
    Fetched =>
        /\ get_spend_result.tag = "Ok" =>
              LET s == get_spend_result.spend
              IN  /\ verify(s, TxHash(s.spend.spent_tx)) = Ok
                  /\ from_unique_pubkey(s.spend.unique_pubkey) = address
                  /\ IsSpendRecord
                  /\ record_response.value = <<s>>
        /\ ( /\ IsSpendRecord
             /\ \/ Len(record_response.value) = 0
                \/ /\ Len(record_response.value) = 1
                   /\ LET s == record_response.value[1]
                      IN  \/ verify(s, TxHash(s.spend.spent_tx)) # Ok
                          \/ from_unique_pubkey(s.spend.unique_pubkey) # address )
           => get_spend_result.tag = "CouldNotVerifyTransfer"

\* a spend at the requested address was fetched, verified and returned
C3_Witness ==
    /\ Fetched /\ get_spend_result.tag = "Ok"
    /\ from_unique_pubkey(get_spend_result.spend.spend.unique_pubkey) = address

\* the record served for the address holds two distinct spends of its key
DoubleSpendServed ==
    /\ IsSpendRecord
    /\ \E i, j \in 1..Len(record_response.value) :
          /\ i < j
          /\ record_response.value[i] # record_response.value[j]
          /\ from_unique_pubkey(record_response.value[i].spend.unique_pubkey) = address
          /\ from_unique_pubkey(record_response.value[j].spend.unique_pubkey) = address

\* C4: when the record served for the address holds two distinct spends of
\* the same unique_pubkey, the call never returns Ok: it returns
\* CouldNotVerifyTransfer naming the signatures of the record's first two
\* spends (both spends, when the record holds just the two).
C4_DoubleSpendNeverOk ==
    (Fetched /\ DoubleSpendServed) =>
        /\ get_spend_result.tag = "CouldNotVerifyTransfer"
        /\ get_spend_result.sigs =
              <<record_response.value[1].derived_key_sig,
                record_response.value[2].derived_key_sig>>

\* a record with two distinct spends, each valid on its own, was fetched
C4_Witness ==
    /\ Fetched /\ DoubleSpendServed
    /\ Len(record_response.value) = 2
    /\ \A i \in 1..2 :
          LET s == record_response.value[i]
          IN  verify(s, TxHash(s.spend.spent_tx)) = Ok

(***************************************************************************)
(* Wallet: the data.                                                       *)
(***************************************************************************)
MainPubkeys == {"pk1", "pk2"}
Procs       == {1, 2}

\* a CashNote as the wallet sees it: its unique_pubkey, the MainPubkey it is
\* derived from (derived_pubkey(main) is Ok for that key only) and value()
Note(id, owner, has_value, value) ==
    [unique_pubkey |-> id, owner |-> owner, has_value |-> has_value,
     value |-> value]
NoteA == Note("a", "pk1", TRUE, 1)
NoteB == Note("b", "pk1", TRUE, 2)
NoteN == Note("n", "pk2", TRUE, 1)     \* belongs to another wallet
NoteE == Note("e", "pk1", FALSE, 0)    \* value() returns an error
NotePool == {NoteA, NoteB, NoteN, NoteE}

NoteLists(pool) == UNION {[1..n -> pool] : n \in 0..MaxNotes}

EmptyMap == [k \in {} |-> 0]

\* KeyLessWallet::default()
DefaultKeyLessWallet ==
    [available_cash_notes |-> EmptyMap, payment_transactions |-> EmptyMap]

RECURSIVE SumOver(_, _)
SumOver(map, keys) ==
    IF keys = {} THEN 0
    ELSE LET k == CHOOSE x \in keys : TRUE
         IN  map[k] + SumOver(map, keys \ {k})

\* KeyLessWallet::balance: the sum of the available cash notes
balance(keyless_wallet) ==
    SumOver(keyless_wallet.available_cash_notes,
            DOMAIN keyless_wallet.available_cash_notes)

\* the mutant of insert: the amount is added to the entry already there
insert_accumulate(map, id, value) ==
    [k \in DOMAIN map \cup {id} |->
        IF k = id THEN (IF id \in DOMAIN map THEN map[id] + value ELSE value)
        ELSE map[k]]

\* BTreeMap::insert
insert(map, id, value) ==
    [k \in DOMAIN map \cup {id} |-> IF k = id THEN value ELSE map[k]]

\* the mutant of remove_all: every entry is removed
clear_all(map, keys) == EmptyMap

\* BTreeMap::remove of each key
remove_all(map, keys) == [k \in DOMAIN map \ keys |-> map[k]]

\* the mutant of not_our_key: no cash note is taken for a foreign one
every_key_is_ours(cash_note, main_pubkey) == FALSE

\* cash_note.derived_pubkey(&self.main_pubkey).is_err()
not_our_key(cash_note, main_pubkey) == cash_note.owner # main_pubkey

IoError     == [tag |-> "Io"]
ValueError  == [tag |-> "CashNoteValue"]
PubKeyMismatch == [tag |-> "PubKeyMismatch"]

\* WatchOnlyWallet::deposit: the wallet and the Result after the loop over
\* received_cash_notes, which stops at the first note whose value() fails
RECURSIVE deposit(_, _, _)
deposit(self, received_cash_notes, i) ==
    IF i > Len(received_cash_notes) THEN [self |-> self, result |-> Ok]
    ELSE LET cash_note == received_cash_notes[i]
         IN  IF not_our_key(cash_note, self.main_pubkey)
             THEN deposit(self, received_cash_notes, i + 1)
             ELSE IF ~cash_note.has_value
             THEN [self |-> self, result |-> ValueError]
             ELSE deposit(
                    [self EXCEPT !.keyless_wallet.available_cash_notes =
                        insert(@, cash_note.unique_pubkey, cash_note.value)],
                    received_cash_notes, i + 1)

\* WatchOnlyWallet::mark_notes_as_spent
mark_notes_as_spent(self, unique_pubkeys) ==
    [self EXCEPT !.keyless_wallet.available_cash_notes =
        remove_all(@, unique_pubkeys)]

\* WatchOnlyWallet::insert_payment_transaction
insert_payment_transaction(self, name, payment) ==
    [self EXCEPT !.keyless_wallet.payment_transactions =
        insert(@, name, payment)]

\* WatchOnlyWallet::load_from run alone on the directory `disk`: its Result,
\* the wallet it returns and the directory it leaves
load_from(disk, main_pubkey) ==
    IF disk.main_pubkey # NoKey /\ disk.main_pubkey # main_pubkey
    THEN [result |-> PubKeyMismatch, self |-> None, disk |-> disk]
    ELSE LET keyless_wallet == IF disk.wallet # None THEN disk.wallet
                               ELSE DefaultKeyLessWallet
         IN  [result |-> Ok,
              self   |-> [main_pubkey |-> main_pubkey,
                          keyless_wallet |-> keyless_wallet],
              disk   |-> [disk EXCEPT !.main_pubkey = main_pubkey,
                                      !.wallet = keyless_wallet]]

(***************************************************************************)
(* Wallet: the operations of a process, one action per statement that      *)
(* touches the wallet directory.                                           *)
(***************************************************************************)
Disk == [main_pubkey |-> disk_main_pubkey, wallet |-> disk_wallet,
         cash_notes |-> disk_cash_notes]

\* a process starts a public operation
StartOp(p, c) ==
    /\ ops_left[p] > 0
    /\ ops_left' = [ops_left EXCEPT ![p] = @ - 1]
    /\ call' = [call EXCEPT ![p] = c]
    /\ repeated' = [repeated EXCEPT ![p] = (c = call[p])]
    /\ before' = [before EXCEPT ![p] = [wallet |-> wallet[p], disk |-> Disk]]

\* the main_pubkey argument of the load_from in progress: the caller's for
\* WatchOnlyWallet::load_from, self.main_pubkey for reload
load_from_key(p) ==
    IF call[p].op = "load_from" THEN call[p].main_pubkey
    ELSE wallet[p].main_pubkey

InLockedCall(p) == call[p].op = "deposit_and_store_to_disk"

\* exclusive_access goes out of scope: the lock of this process is released
Dropped(p) == IF lock_holder = p THEN 0 ELSE lock_holder

\* the mutant of LoadFromReturns: a wallet already in memory is kept
LoadFromKeepsWallet(p, res, self) ==
    /\ wallet' = IF res = Ok /\ wallet[p] = None
                 THEN [wallet EXCEPT ![p] = self] ELSE wallet
    /\ pc' = [pc EXCEPT ![p] =
                IF InLockedCall(p) /\ res = Ok THEN "deposit_loop"
                ELSE IF call[p].op = "load_from" /\ res # Ok THEN "closed"
                ELSE "idle"]
    /\ idx' = [idx EXCEPT ![p] = 1]
    /\ result' = IF InLockedCall(p) /\ res = Ok THEN result
                 ELSE [result EXCEPT ![p] = res]
    /\ lock_holder' = IF InLockedCall(p) /\ res # Ok THEN Dropped(p) ELSE lock_holder
    /\ steps' = [steps EXCEPT ![p] =
                    Append(@, IF res = Ok THEN "reload" ELSE "error")]

\* load_from returns `res` (and the wallet `self` when Ok) to its caller:
\* the process that opens a wallet, reload() or deposit_and_store_to_disk,
\* whose `?` returns the error and so drops exclusive_access
LoadFromReturns(p, res, self) ==
    /\ wallet' = IF res = Ok THEN [wallet EXCEPT ![p] = self] ELSE wallet
    /\ pc' = [pc EXCEPT ![p] =
                IF InLockedCall(p) /\ res = Ok THEN "deposit_loop"
                ELSE IF call[p].op = "load_from" /\ res # Ok THEN "closed"
                ELSE "idle"]
    /\ idx' = [idx EXCEPT ![p] = 1]
    /\ result' = IF InLockedCall(p) /\ res = Ok THEN result
                 ELSE [result EXCEPT ![p] = res]
    /\ lock_holder' = IF InLockedCall(p) /\ res # Ok THEN Dropped(p) ELSE lock_holder
    /\ steps' = [steps EXCEPT ![p] =
                    Append(@, IF res = Ok THEN "reload" ELSE "error")]

\* WatchOnlyWallet::load_from(wallet_dir, main_pubkey), called to open
Open(p, main_pubkey) ==
    /\ pc[p] = "start"
    /\ StartOp(p, [op |-> "load_from", main_pubkey |-> main_pubkey])
    /\ pc' = [pc EXCEPT ![p] = "get_main_pubkey"]
    /\ steps' = [steps EXCEPT ![p] = <<>>]
    /\ dirty' = [dirty EXCEPT ![p] = {}]
    /\ UNCHANGED <<disk_vars, wallet, idx, loaded, result>>

\* the mutant of GetMainPubkey: the key found in the directory is taken
\* without comparing it with the caller's
GetMainPubkeyAnyKey(p) ==
    /\ pc[p] = "get_main_pubkey"
    /\ pc' = [pc EXCEPT ![p] =
                IF disk_main_pubkey = NoKey THEN "store_new_pubkey"
                ELSE "get_wallet"]
    /\ loaded' = [loaded EXCEPT ![p] = disk_main_pubkey]
    /\ UNCHANGED <<wallet, idx, result, lock_holder, steps>>
    /\ UNCHANGED <<disk_main_pubkey, disk_wallet, disk_cash_notes, call,
                   ops_left, before, dirty, repeated>>

\* match get_main_pubkey(wallet_dir)?
GetMainPubkey(p) ==
    /\ pc[p] = "get_main_pubkey"
    /\ IF disk_main_pubkey # NoKey /\ disk_main_pubkey # load_from_key(p)
       THEN /\ LoadFromReturns(p, PubKeyMismatch, None)
            /\ UNCHANGED loaded
       ELSE /\ pc' = [pc EXCEPT ![p] =
                        IF disk_main_pubkey = NoKey THEN "store_new_pubkey"
                        ELSE "get_wallet"]
            /\ loaded' = [loaded EXCEPT ![p] = disk_main_pubkey]
            /\ UNCHANGED <<wallet, idx, result, lock_holder, steps>>
    /\ UNCHANGED <<disk_main_pubkey, disk_wallet, disk_cash_notes, call,
                   ops_left, before, dirty, repeated>>

\* None => create_dir_all; store_new_pubkey(wallet_dir, &main_pubkey)?
StoreNewPubkey(p) ==
    /\ pc[p] = "store_new_pubkey"
    /\ disk_main_pubkey' = load_from_key(p)
    /\ loaded' = [loaded EXCEPT ![p] = load_from_key(p)]
    /\ dirty' = [dirty EXCEPT ![p] =
                    IF disk_main_pubkey' # disk_main_pubkey
                    THEN @ \cup {"main_pubkey"} ELSE @]
    /\ pc' = [pc EXCEPT ![p] = "get_wallet"]
    /\ UNCHANGED <<disk_wallet, disk_cash_notes, lock_holder, wallet, call,
                   idx, result, ops_left, steps, before, repeated>>

\* match get_wallet(wallet_dir)? { Some(keyless_wallet) => ..
GetWallet(p) ==
    /\ pc[p] = "get_wallet"
    /\ IF disk_wallet # None
       THEN LoadFromReturns(p, Ok,
                [main_pubkey |-> loaded[p], keyless_wallet |-> disk_wallet])
       ELSE /\ pc' = [pc EXCEPT ![p] = "store_default_wallet"]
            /\ UNCHANGED <<wallet, idx, result, lock_holder, steps>>
    /\ UNCHANGED <<disk_main_pubkey, disk_wallet, disk_cash_notes, call,
                   loaded, ops_left, before, dirty, repeated>>

\* None => store_wallet(wallet_dir, &KeyLessWallet::default())?
StoreDefaultWallet(p) ==
    /\ pc[p] = "store_default_wallet"
    /\ disk_wallet' = DefaultKeyLessWallet
    /\ dirty' = [dirty EXCEPT ![p] =
                    IF disk_wallet' # disk_wallet THEN @ \cup {"wallet"} ELSE @]
    /\ LoadFromReturns(p, Ok,
            [main_pubkey |-> loaded[p], keyless_wallet |-> DefaultKeyLessWallet])
    /\ UNCHANGED <<disk_main_pubkey, disk_cash_notes, call, loaded, ops_left,
                   before, repeated>>

\* WatchOnlyWallet::deposit(received_cash_notes): in memory only
Deposit(p, received_cash_notes) ==
    /\ pc[p] = "idle"
    /\ StartOp(p, [op |-> "deposit", notes |-> received_cash_notes])
    /\ LET done == deposit(wallet[p], received_cash_notes, 1)
       IN  /\ wallet' = [wallet EXCEPT ![p] = done.self]
           /\ result' = [result EXCEPT ![p] = done.result]
    /\ steps' = [steps EXCEPT ![p] = <<>>]
    /\ dirty' = [dirty EXCEPT ![p] = {}]
    /\ UNCHANGED <<disk_vars, pc, idx, loaded>>

\* WatchOnlyWallet::mark_notes_as_spent(unique_pubkeys): in memory only
MarkNotesAsSpent(p, unique_pubkeys) ==
    /\ pc[p] = "idle"
    /\ StartOp(p, [op |-> "mark_notes_as_spent", keys |-> unique_pubkeys])
    /\ wallet' = [wallet EXCEPT ![p] = mark_notes_as_spent(@, unique_pubkeys)]
    /\ result' = [result EXCEPT ![p] = Ok]
    /\ steps' = [steps EXCEPT ![p] = <<>>]
    /\ dirty' = [dirty EXCEPT ![p] = {}]
    /\ UNCHANGED <<disk_vars, pc, idx, loaded>>

\* WatchOnlyWallet::insert_payment_transaction(name, payment): in memory only
InsertPaymentTransaction(p, name, payment) ==
    /\ pc[p] = "idle"
    /\ StartOp(p, [op |-> "insert_payment_transaction", name |-> name,
                   payment |-> payment])
    /\ wallet' = [wallet EXCEPT ![p] =
                    insert_payment_transaction(@, name, payment)]
    /\ result' = [result EXCEPT ![p] = Ok]
    /\ steps' = [steps EXCEPT ![p] = <<>>]
    /\ dirty' = [dirty EXCEPT ![p] = {}]
    /\ UNCHANGED <<disk_vars, pc, idx, loaded>>

\* WatchOnlyWallet::reload(): load_from(&self.wallet_dir, self.main_pubkey)
Reload(p) ==
    /\ pc[p] = "idle"
    /\ StartOp(p, [op |-> "reload"])
    /\ pc' = [pc EXCEPT ![p] = "get_main_pubkey"]
    /\ steps' = [steps EXCEPT ![p] = <<>>]
    /\ dirty' = [dirty EXCEPT ![p] = {}]
    /\ UNCHANGED <<disk_vars, wallet, idx, loaded, result>>

\* WatchOnlyWallet::deposit_and_store_to_disk(received_cash_notes): an
\* empty list returns Ok at once
DepositAndStoreToDisk(p, received_cash_notes) ==
    /\ pc[p] = "idle"
    /\ StartOp(p, [op |-> "deposit_and_store_to_disk",
                   notes |-> received_cash_notes])
    /\ IF Len(received_cash_notes) = 0
       THEN /\ result' = [result EXCEPT ![p] = Ok]
            /\ UNCHANGED pc
       ELSE /\ pc' = [pc EXCEPT ![p] = "lock"]
            /\ UNCHANGED result
    /\ steps' = [steps EXCEPT ![p] = <<>>]
    /\ dirty' = [dirty EXCEPT ![p] = {}]
    /\ UNCHANGED <<disk_vars, wallet, idx, loaded>>

\* the mutant of Lock: the lock is taken without waiting for its holder
LockNotExclusive(p) ==
    /\ pc[p] = "lock"
    /\ lock_holder' = p
    /\ pc' = [pc EXCEPT ![p] = "get_main_pubkey"]
    /\ steps' = [steps EXCEPT ![p] = Append(@, "lock")]
    /\ UNCHANGED <<disk_main_pubkey, disk_wallet, disk_cash_notes, wallet,
                   call, idx, loaded, result, ops_left, before, dirty, repeated>>

\* let exclusive_access = self.lock()?: file.lock_exclusive() waits until no
\* other process holds the lock; self.reload() follows
Lock(p) ==
    /\ pc[p] = "lock"
    /\ lock_holder = 0
    /\ lock_holder' = p
    /\ pc' = [pc EXCEPT ![p] = "get_main_pubkey"]
    /\ steps' = [steps EXCEPT ![p] = Append(@, "lock")]
    /\ UNCHANGED <<disk_main_pubkey, disk_wallet, disk_cash_notes, wallet,
                   call, idx, loaded, result, ops_left, before, dirty, repeated>>

\* one turn of `for cash_note in received_cash_notes`: a note of another
\* key is skipped, value()? may return the error, otherwise the note is
\* inserted and store_created_cash_notes writes its file
DepositLoop(p) ==
    /\ pc[p] = "deposit_loop"
    /\ idx[p] <= Len(call[p].notes)
    /\ LET cash_note == call[p].notes[idx[p]]
           id        == cash_note.unique_pubkey
       IN  IF not_our_key(cash_note, wallet[p].main_pubkey)
           THEN /\ idx' = [idx EXCEPT ![p] = @ + 1]
                /\ steps' = [steps EXCEPT ![p] = Append(@, "skip")]
                /\ UNCHANGED <<wallet, pc, result, lock_holder,
                               disk_cash_notes, dirty>>
           ELSE IF ~cash_note.has_value
           THEN /\ result' = [result EXCEPT ![p] = ValueError]
                /\ pc' = [pc EXCEPT ![p] = "idle"]
                /\ lock_holder' = Dropped(p)
                /\ steps' = [steps EXCEPT ![p] = Append(@, "error")]
                /\ UNCHANGED <<wallet, idx, disk_cash_notes, dirty>>
           ELSE /\ wallet' = [wallet EXCEPT
                      ![p].keyless_wallet.available_cash_notes =
                          insert(@, id, cash_note.value)]
                /\ disk_cash_notes' = disk_cash_notes \cup {id}
                /\ dirty' = [dirty EXCEPT ![p] =
                                IF id \in disk_cash_notes THEN @
                                ELSE @ \cup {id}]
                /\ idx' = [idx EXCEPT ![p] = @ + 1]
                /\ steps' = [steps EXCEPT ![p] =
                                Append(Append(@, "insert"), "store_cash_note")]
                /\ UNCHANGED <<pc, result, lock_holder>>
    /\ UNCHANGED <<disk_main_pubkey, disk_wallet, call, loaded, ops_left,
                   before, repeated>>

\* store_created_cash_notes(..)? fails: the note is in memory, no file is
\* written, the error is returned and exclusive_access dropped
StoreCashNoteFails(p) ==
    /\ pc[p] = "deposit_loop"
    /\ idx[p] <= Len(call[p].notes)
    /\ LET cash_note == call[p].notes[idx[p]]
       IN  /\ ~not_our_key(cash_note, wallet[p].main_pubkey)
           /\ cash_note.has_value
           /\ wallet' = [wallet EXCEPT
                 ![p].keyless_wallet.available_cash_notes =
                     insert(@, cash_note.unique_pubkey, cash_note.value)]
    /\ result' = [result EXCEPT ![p] = IoError]
    /\ pc' = [pc EXCEPT ![p] = "idle"]
    /\ lock_holder' = Dropped(p)
    /\ steps' = [steps EXCEPT ![p] = Append(Append(@, "insert"), "error")]
    /\ UNCHANGED <<disk_main_pubkey, disk_wallet, disk_cash_notes, call, idx,
                   loaded, ops_left, before, dirty, repeated>>

\* the loop is over: self.store(exclusive_access) is next
LoopDone(p) ==
    /\ pc[p] = "deposit_loop"
    /\ idx[p] > Len(call[p].notes)
    /\ pc' = [pc EXCEPT ![p] = "store_wallet"]
    /\ UNCHANGED <<disk_vars, wallet, call, idx, loaded, result, ops_left,
                   hist_vars>>

\* the mutant of StoreWallet: an empty wallet is written
StoreWalletDefault(p) ==
    /\ pc[p] = "store_wallet"
    /\ disk_wallet' = DefaultKeyLessWallet
    /\ dirty' = [dirty EXCEPT ![p] =
                    IF disk_wallet' # disk_wallet THEN @ \cup {"wallet"} ELSE @]
    /\ pc' = [pc EXCEPT ![p] = "release"]
    /\ steps' = [steps EXCEPT ![p] = Append(@, "store_wallet")]
    /\ UNCHANGED <<disk_main_pubkey, disk_cash_notes, lock_holder, wallet,
                   call, idx, loaded, result, ops_left, before, repeated>>

\* store: store_wallet(&self.wallet_dir, &self.keyless_wallet)?
StoreWallet(p) ==
    /\ pc[p] = "store_wallet"
    /\ disk_wallet' = wallet[p].keyless_wallet
    /\ dirty' = [dirty EXCEPT ![p] =
                    IF disk_wallet' # disk_wallet THEN @ \cup {"wallet"} ELSE @]
    /\ pc' = [pc EXCEPT ![p] = "release"]
    /\ steps' = [steps EXCEPT ![p] = Append(@, "store_wallet")]
    /\ UNCHANGED <<disk_main_pubkey, disk_cash_notes, lock_holder, wallet,
                   call, idx, loaded, result, ops_left, before, repeated>>

\* store: store_wallet(..)? fails: nothing is written, the error is
\* returned and exclusive_access dropped
StoreWalletFails(p) ==
    /\ pc[p] = "store_wallet"
    /\ result' = [result EXCEPT ![p] = IoError]
    /\ pc' = [pc EXCEPT ![p] = "idle"]
    /\ lock_holder' = Dropped(p)
    /\ steps' = [steps EXCEPT ![p] = Append(@, "error")]
    /\ UNCHANGED <<disk_main_pubkey, disk_wallet, disk_cash_notes, wallet,
                   call, idx, loaded, ops_left, before, dirty, repeated>>

\* store: std::mem::drop(exclusive_access); Ok(())
ReleaseLock(p) ==
    /\ pc[p] = "release"
    /\ lock_holder' = Dropped(p)
    /\ result' = [result EXCEPT ![p] = Ok]
    /\ pc' = [pc EXCEPT ![p] = "idle"]
    /\ steps' = [steps EXCEPT ![p] = Append(@, "release")]
    /\ UNCHANGED <<disk_main_pubkey, disk_wallet, disk_cash_notes, wallet,
                   call, idx, loaded, ops_left, before, dirty, repeated>>

(***************************************************************************)
(* SpecWalletConc: two processes open the same wallet directory and each   *)
(* calls deposit_and_store_to_disk once; writes of cash-note files and of  *)
(* the wallet file may fail.                                               *)
(***************************************************************************)
NoCall == [op |-> "none"]

InitDisk ==
    /\ disk_main_pubkey \in {NoKey, "pk1"}
    /\ disk_wallet \in {None, DefaultKeyLessWallet}
    /\ disk_main_pubkey = NoKey => disk_wallet = None
    /\ disk_cash_notes = {}
    /\ lock_holder = 0

InitProcs(first_pc, ops) ==
    /\ wallet = [p \in Procs |-> None]
    /\ pc = [p \in Procs |-> first_pc[p]]
    /\ call = [p \in Procs |-> NoCall]
    /\ idx = [p \in Procs |-> 1]
    /\ loaded = [p \in Procs |-> NoKey]
    /\ result = [p \in Procs |-> None]
    /\ ops_left = [p \in Procs |-> ops[p]]
    /\ steps = [p \in Procs |-> <<>>]
    /\ before = [p \in Procs |-> [wallet |-> None, disk |-> Disk]]
    /\ dirty = [p \in Procs |-> {}]
    /\ repeated = [p \in Procs |-> FALSE]

\* the notes a process deposits: its own note, a note of another wallet
\* and a note without value
ConcPool(p) == {IF p = 1 THEN NoteA ELSE NoteB, NoteN, NoteE}

InitWalletConc ==
    /\ InitDisk
    /\ InitProcs([p \in Procs |-> "start"], [p \in Procs |-> 2])
    /\ SpendIdle /\ GetIdle /\ ClientIdle

LoadFromStep(p) ==
    \/ GetMainPubkey(p)
    \/ StoreNewPubkey(p)
    \/ GetWallet(p)
    \/ StoreDefaultWallet(p)

DepositAndStoreStep(p) ==
    \/ Lock(p)
    \/ DepositLoop(p)
    \/ LoopDone(p)
    \/ StoreWallet(p)
    \/ ReleaseLock(p)

NextWalletConc ==
    \E p \in Procs :
        \/ \E main_pubkey \in MainPubkeys : Open(p, main_pubkey)
        \/ LoadFromStep(p)
        \/ \E notes \in NoteLists(ConcPool(p)) : DepositAndStoreToDisk(p, notes)
        \/ DepositAndStoreStep(p)
        \/ StoreCashNoteFails(p)
        \/ StoreWalletFails(p)

SpecWalletConc ==
    InitWalletConc
    /\ [][NextWalletConc /\ UNCHANGED <<spend_vars, get_vars, client_vars>>]_vars

(***************************************************************************)
(* SpecWalletOps: one process opens the wallet directory and then calls    *)
(* up to MaxOps operations of the wallet, in any order; no disk error.     *)
(***************************************************************************)
InitWalletOps ==
    /\ InitDisk
    /\ InitProcs([p \in Procs |-> IF p = 1 THEN "start" ELSE "off"],
                 [p \in Procs |-> IF p = 1 THEN MaxOps + 1 ELSE 0])
    /\ SpendIdle /\ GetIdle /\ ClientIdle

NoteIds == {n.unique_pubkey : n \in NotePool}

NextWalletOps ==
    \E p \in Procs :
        \/ \E main_pubkey \in MainPubkeys : Open(p, main_pubkey)
        \/ LoadFromStep(p)
        \/ \E notes \in NoteLists(NotePool) : Deposit(p, notes)
        \/ \E keys \in SUBSET NoteIds : MarkNotesAsSpent(p, keys)
        \/ Reload(p)
        \/ \E notes \in NoteLists(NotePool) : DepositAndStoreToDisk(p, notes)
        \/ DepositAndStoreStep(p)

SpecWalletOps ==
    InitWalletOps
    /\ [][NextWalletOps /\ UNCHANGED <<spend_vars, get_vars, client_vars>>]_vars

(***************************************************************************)
(* SpecWalletPay: one process opens a wallet directory that may hold       *)
(* payment transactions stored earlier, and then calls up to MaxOps        *)
(* operations, insert_payment_transaction included; no disk error.         *)
(***************************************************************************)
XorNames       == {"x1", "x2"}
PaymentDetails == {"d1"}

\* a wallet file written earlier by the owner of the directory
StoredPaymentWallet ==
    [available_cash_notes |-> EmptyMap,
     payment_transactions |-> [name \in {"x1"} |-> "d1"]]

PayPool == {NoteA, NoteB, NoteN}

InitWalletPay ==
    /\ disk_main_pubkey \in {NoKey, "pk1"}
    /\ disk_wallet \in {None, DefaultKeyLessWallet, StoredPaymentWallet}
    /\ disk_main_pubkey = NoKey => disk_wallet = None
    /\ disk_cash_notes = {}
    /\ lock_holder = 0
    /\ InitProcs([p \in Procs |-> IF p = 1 THEN "start" ELSE "off"],
                 [p \in Procs |-> IF p = 1 THEN MaxOps + 1 ELSE 0])
    /\ SpendIdle /\ GetIdle /\ ClientIdle

NextWalletPay ==
    \E p \in Procs :
        \/ Open(p, "pk1")
        \/ LoadFromStep(p)
        \/ \E notes \in NoteLists(PayPool) : Deposit(p, notes)
        \/ \E keys \in SUBSET {n.unique_pubkey : n \in PayPool} :
                MarkNotesAsSpent(p, keys)
        \/ \E name \in XorNames, payment \in PaymentDetails :
                InsertPaymentTransaction(p, name, payment)
        \/ Reload(p)
        \/ \E notes \in NoteLists(PayPool) : DepositAndStoreToDisk(p, notes)
        \/ DepositAndStoreStep(p)

SpecWalletPay ==
    InitWalletPay
    /\ [][NextWalletPay /\ UNCHANGED <<spend_vars, get_vars, client_vars>>]_vars

(***************************************************************************)
(* Claims about concurrent users of one wallet directory (SpecWalletConc). *)
(***************************************************************************)
DepositAndStoreDone(p) ==
    /\ pc[p] = "idle"
    /\ call[p].op = "deposit_and_store_to_disk"

\* every note of the list is derived from the wallet's key and has a value
AllOwned(p) ==
    \A i \in 1..Len(call[p].notes) :
        /\ call[p].notes[i].owner = wallet[p].main_pubkey
        /\ call[p].notes[i].has_value

NotesOf(p) == {call[p].notes[i] : i \in 1..Len(call[p].notes)}

RECURSIVE SumOfValues(_)
SumOfValues(notes) ==
    IF notes = {} THEN 0
    ELSE LET n == CHOOSE x \in notes : TRUE
         IN  n.value + SumOfValues(notes \ {n})

\* C5: when two processes opened the same wallet directory and each has
\* returned Ok from deposit_and_store_to_disk with its own owned notes, the
\* wallet file holds the notes of both and its balance is their sum.
C5_NoDepositLost ==
    ( /\ \A p \in Procs :
            /\ DepositAndStoreDone(p) /\ result[p] = Ok
            /\ Len(call[p].notes) > 0 /\ AllOwned(p)
      /\ NotesOf(1) \cap NotesOf(2) = {} )
    => /\ disk_wallet # None
       /\ \A n \in NotesOf(1) \cup NotesOf(2) :
             /\ n.unique_pubkey \in DOMAIN disk_wallet.available_cash_notes
             /\ disk_wallet.available_cash_notes[n.unique_pubkey] = n.value
       /\ balance(disk_wallet) = SumOfValues(NotesOf(1) \cup NotesOf(2))

\* the process whose statement a step executes
Acting(p) == <<pc[p], idx[p], steps[p], call[p]>>' # <<pc[p], idx[p], steps[p], call[p]>>

\* C6: every step that changes a file of the wallet directory (main public
\* key, wallet file, cash-note files) is taken by the process that holds the
\* exclusive lock, load_from included.
C6_WritesHoldLock ==
    [][\A p \in Procs : (Acting(p) /\ Disk' # Disk) => lock_holder = p]_vars

LockedStatements ==
    {"get_main_pubkey", "store_new_pubkey", "get_wallet",
     "store_default_wallet", "deposit_loop", "store_wallet", "release"}

LoopSteps == {"insert", "store_cash_note", "skip"}

\* C7: in deposit_and_store_to_disk with a non-empty list the lock is held
\* from its acquisition to its release, across reload, the inserts and the
\* write of the wallet file, and the steps come in the order lock, reload,
\* inserts, wallet file, release: the release follows the wallet write.
C7_LockReloadInsertStoreRelease ==
    \A p \in Procs :
        call[p].op = "deposit_and_store_to_disk" =>
            LET s == steps[p]
            IN  /\ pc[p] \in LockedStatements => lock_holder = p
                /\ pc[p] \notin LockedStatements => lock_holder # p
                /\ \A i \in 1..Len(s) :
                      /\ s[i] = "lock" => i = 1
                      /\ s[i] = "reload" => (i = 2 /\ s[1] = "lock")
                      /\ s[i] \in LoopSteps =>
                            (i > 2 /\ s[2] = "reload" /\ pc[p] # "lock")
                      /\ s[i] = "store_wallet" =>
                            /\ i > 2 /\ s[2] = "reload"
                            /\ \A j \in 1..Len(s) : s[j] \in LoopSteps => j < i
                            /\ i = Len(s) => lock_holder = p
                      /\ s[i] = "release" =>
                            (i = Len(s) /\ i > 1 /\ s[i - 1] = "store_wallet")
                /\ (pc[p] = "idle" /\ result[p] = Ok /\ Len(call[p].notes) > 0)
                      => (Len(s) > 0 /\ s[Len(s)] = "release")

\* a deposit of a note went through all of its steps while the other
\* process was waiting for the lock or had it before
C7_Witness ==
    \E p \in Procs :
        /\ DepositAndStoreDone(p) /\ result[p] = Ok
        /\ \E i \in 1..Len(steps[p]) : steps[p][i] = "insert"
        /\ \E q \in Procs \ {p} : call[q].op = "deposit_and_store_to_disk"

\* C8: when deposit_and_store_to_disk has returned an error, the call has
\* changed no file of the wallet directory.
C8_ErrorLeavesDiskUnchanged ==
    \A p \in Procs :
        (DepositAndStoreDone(p) /\ result[p] # Ok) => dirty[p] = {}

(***************************************************************************)
(* Claims about the operations of one wallet (SpecWalletOps).              *)
(***************************************************************************)
Available(w) == w.keyless_wallet.available_cash_notes

\* C9: deposit(notes) right after deposit(notes) leaves the available cash
\* notes and the balance as the first deposit left them.
C9_DepositIdempotent ==
    \A p \in Procs :
        (pc[p] = "idle" /\ call[p].op = "deposit" /\ repeated[p]) =>
            /\ Available(wallet[p]) = Available(before[p].wallet)
            /\ balance(wallet[p].keyless_wallet)
                  = balance(before[p].wallet.keyless_wallet)

\* an owned note was deposited twice in a row and is in the wallet
C9_Witness ==
    \E p \in Procs :
        /\ pc[p] = "idle" /\ call[p].op = "deposit" /\ repeated[p]
        /\ Len(call[p].notes) = 1 /\ AllOwned(p)
        /\ call[p].notes[1].unique_pubkey \in DOMAIN Available(wallet[p])

DepositCallDone(p) ==
    /\ pc[p] = "idle"
    /\ call[p].op \in {"deposit", "deposit_and_store_to_disk"}
    /\ Len(call[p].notes) > 0

NoneOwned(p) ==
    \A i \in 1..Len(call[p].notes) :
        call[p].notes[i].owner # wallet[p].main_pubkey

BaseWallet(p) ==
    IF call[p].op = "deposit" THEN before[p].wallet
    ELSE [main_pubkey |-> before[p].wallet.main_pubkey,
          keyless_wallet |-> IF before[p].disk.wallet = None
                             THEN DefaultKeyLessWallet
                             ELSE before[p].disk.wallet]

IsOurs(p, n) == n.owner = before[p].wallet.main_pubkey

OurNotes(p) == SelectSeq(call[p].notes, LAMBDA n : IsOurs(p, n))

\* the cash-note files a call writes: those of our notes, up to the first
\* one without value
RECURSIVE StoredIds(_, _)
StoredIds(notes, i) ==
    IF i > Len(notes) \/ ~notes[i].has_value THEN {}
    ELSE {notes[i].unique_pubkey} \cup StoredIds(notes, i + 1)

StoredOk(p) ==
    /\ DepositAndStoreDone(p) /\ result[p] = Ok
    /\ \E i \in 1..Len(steps[p]) : steps[p][i] = "store_wallet"

\* C11: right after a deposit_and_store_to_disk that ended with store and
\* returned Ok, load_from of the directory with the wallet's main key (which
\* is what reload() runs) returns the available cash notes, the payment
\* transactions and the balance of the wallet in memory.
C11_LoadAfterStoreIsSame ==
    \A p \in Procs :
        StoredOk(p) =>
            LET loaded_again == load_from(Disk, wallet[p].main_pubkey)
            IN  /\ loaded_again.result = Ok
                /\ Available(loaded_again.self) = Available(wallet[p])
                /\ loaded_again.self.keyless_wallet.payment_transactions
                      = wallet[p].keyless_wallet.payment_transactions
                /\ balance(loaded_again.self.keyless_wallet)
                      = balance(wallet[p].keyless_wallet)

\* a stored wallet that holds a cash note and a payment transaction
C11_Witness ==
    \E p \in Procs :
        /\ StoredOk(p)
        /\ DOMAIN Available(wallet[p]) # {}
        /\ DOMAIN wallet[p].keyless_wallet.payment_transactions # {}

ReloadDone(p) == pc[p] = "idle" /\ call[p].op = "reload" /\ result[p] = Ok

\* the notes that were in memory only when the operation was called
InMemoryOnly(p) ==
    DOMAIN Available(before[p].wallet)
        \ DOMAIN before[p].disk.wallet.available_cash_notes

\* C12: after reload() the wallet in memory is the wallet on disk: a note
\* that was in memory only is gone, and the balance is the on-disk balance.
C12_ReloadReplacesMemory ==
    \A p \in Procs :
        ReloadDone(p) =>
            /\ wallet[p].keyless_wallet = disk_wallet
            /\ disk_wallet = before[p].disk.wallet
            /\ InMemoryOnly(p) \cap DOMAIN Available(wallet[p]) = {}
            /\ balance(wallet[p].keyless_wallet) = balance(disk_wallet)

\* reload() was called with a note that deposit() had put in memory only
C12_Witness ==
    \E p \in Procs : ReloadDone(p) /\ InMemoryOnly(p) # {}

MarkDone(p) == pc[p] = "idle" /\ call[p].op = "mark_notes_as_spent"

\* C13: mark_notes_as_spent(keys) removes the listed keys from the available
\* cash notes, keeps every other entry with its value, and leaves the
\* payment transactions, the main key and the wallet directory as they were.
C13_MarkSpentRemovesOnlyKeys ==
    \A p \in Procs :
        MarkDone(p) =>
            /\ DOMAIN Available(wallet[p])
                  = DOMAIN Available(before[p].wallet) \ call[p].keys
            /\ \A k \in DOMAIN Available(wallet[p]) :
                  Available(wallet[p])[k] = Available(before[p].wallet)[k]
            /\ wallet[p].keyless_wallet.payment_transactions
                  = before[p].wallet.keyless_wallet.payment_transactions
            /\ wallet[p].main_pubkey = before[p].wallet.main_pubkey
            /\ Disk = before[p].disk

\* one listed key was in the wallet and one was not, another note stays,
\* and the wallet holds a payment transaction
C13_Witness ==
    \E p \in Procs :
        /\ MarkDone(p)
        /\ call[p].keys \cap DOMAIN Available(before[p].wallet) # {}
        /\ call[p].keys \ DOMAIN Available(before[p].wallet) # {}
        /\ DOMAIN Available(wallet[p]) # {}
        /\ DOMAIN wallet[p].keyless_wallet.payment_transactions # {}

LoadFromDone(p) == pc[p] \in {"idle", "closed"} /\ call[p].op = "load_from"

\* C14: load_from(dir, pk) returns PubKeyMismatch exactly when the directory
\* held another main key, and then has written nothing; otherwise it
\* returns Ok and the directory holds pk, stored by the call when there was
\* no key and left as it was when it was pk already.
C14_LoadFromPubKey ==
    \A p \in Procs :
        LoadFromDone(p) =>
            LET held == before[p].disk.main_pubkey
                pk   == call[p].main_pubkey
            IN  /\ (held # NoKey /\ held # pk) =>
                      /\ result[p] = PubKeyMismatch
                      /\ Disk = before[p].disk
                      /\ dirty[p] = {}
                /\ held = NoKey =>
                      /\ result[p] = Ok
                      /\ disk_main_pubkey = pk
                      /\ "main_pubkey" \in dirty[p]
                /\ held = pk =>
                      /\ result[p] = Ok
                      /\ disk_main_pubkey = pk
                      /\ "main_pubkey" \notin dirty[p]
                /\ result[p] = Ok => wallet[p].main_pubkey = pk

\* a directory of another key was opened
C14_Witness ==
    \E p \in Procs :
        /\ LoadFromDone(p)
        /\ before[p].disk.main_pubkey \notin {NoKey, call[p].main_pubkey}
        /\ result[p] = PubKeyMismatch

(***************************************************************************)
(* Registers: merge_split_register_records.  A SignedRegister is           *)
(* [meta, owner, ops, signature]; an op is [id, signer]; a signature is    *)
(* named by the key that made it.                                          *)
(***************************************************************************)
RegisterOwners == {"o1", "o2"}

RegisterAddress(meta, owner) == [meta |-> meta, owner |-> owner]

Op(id, signer) == [id |-> id, signer |-> signer]

SignedRegister(owner, ops, signer) ==
    [meta |-> "meta", owner |-> owner, ops |-> ops, signature |-> signer]

\* SignedRegister::verify: the outer signature and the signature of every
\* op verify under the owner the register declares
register_verify(reg) ==
    /\ reg.signature = reg.owner
    /\ \A op \in reg.ops : op.signer = reg.owner

\* SignedRegister::verified_merge: the other register is verified and must
\* be a replica of the same register (same meta and owner); its ops are
\* then added.  On an error self is left as it was.
verified_merge(self, other) ==
    IF other.meta # self.meta \/ other.owner # self.owner
    THEN [tag |-> "DifferentBaseRegister", self |-> self]
    ELSE IF ~register_verify(other)
    THEN [tag |-> "InvalidSignature", self |-> self]
    ELSE [tag |-> "Ok", self |-> [self EXCEPT !.ops = @ \cup other.ops]]

RegisterNotFound(addr) == [tag |-> "RegisterNotFound", address |-> addr]

\* get_register_from_record(record)
get_register_from_record(record) ==
    IF record.kind = BadHeader THEN [tag |-> "Err", why |-> "RecordHeader"]
    ELSE IF record.kind # "Register"
    THEN [tag |-> "RecordKindMismatch", expected |-> "Register"]
    ELSE IF ~record.decodes THEN [tag |-> "Err", why |-> "deserialize"]
    ELSE [tag |-> "Ok", register |-> record.value]

\* for (record, peers) in map.values(): the registers of the records that
\* get_register_from_record accepts, in the order of the map
RECURSIVE all_registers_of(_, _)
all_registers_of(map_values, i) ==
    IF i > Len(map_values) THEN <<>>
    ELSE LET got == get_register_from_record(map_values[i])
         IN  (IF got.tag = "Ok" THEN <<got.register>> ELSE <<>>)
             \o all_registers_of(map_values, i + 1)

\* the mutant of first_valid: only the first register is looked at
first_valid_head(all_registers) ==
    IF Len(all_registers) > 0 /\ register_verify(all_registers[1]) THEN 1
    ELSE 0

\* all_registers.iter().find(|r| r.verify().is_ok()): its index, 0 for None
first_valid(all_registers) ==
    LET valid == {i \in 1..Len(all_registers) :
                    register_verify(all_registers[i])}
    IN  IF valid = {} THEN 0
        ELSE CHOOSE i \in valid : \A j \in valid : i <= j

\* all_registers.into_iter().fold(one_valid_reg, |acc, r| ..): a register
\* that fails to merge is skipped
RECURSIVE fold_verified_merge(_, _, _)
fold_verified_merge(acc, all_registers, i) ==
    IF i > Len(all_registers) THEN acc
    ELSE fold_verified_merge(verified_merge(acc, all_registers[i]).self,
                             all_registers, i + 1)

\* merge_split_register_records(address, map), map.values() given in the
\* order the HashMap yields them
merge_split_register_records(addr, map_values) ==
    LET all_registers == all_registers_of(map_values, 1)
        one_valid     == first_valid(all_registers)
    IN  IF one_valid = 0 THEN RegisterNotFound(addr)
        ELSE [tag |-> "Ok",
              register |-> fold_verified_merge(all_registers[one_valid],
                                               all_registers, 1)]

\* the registers served under one key: the root R0 of the owner with op A
\* and with op B, a register whose outer signature is not the owner's, one
\* that holds an op signed by another key, and a register of another owner
RegisterPool ==
    { SignedRegister("o1", {Op("root", "o1"), Op("A", "o1")}, "o1"),
      SignedRegister("o1", {Op("root", "o1"), Op("B", "o1")}, "o1"),
      SignedRegister("o1", {Op("bad_root", "o1")}, "o2"),
      SignedRegister("o1", {Op("root", "o1"), Op("C", "o2")}, "o1"),
      SignedRegister("o2", {Op("X", "o2")}, "o2") }

NoRegister == SignedRegister(NoKey, {}, NoKey)

\* the records of a result map: each register, and records that are no
\* register: another kind, bytes that do not decode, a broken header
RegisterRecords ==
    {[kind |-> "Register", decodes |-> TRUE, value |-> r] : r \in RegisterPool}
    \cup {[kind |-> "Chunk", decodes |-> TRUE, value |-> NoRegister],
          [kind |-> "Register", decodes |-> FALSE, value |-> NoRegister],
          [kind |-> BadHeader, decodes |-> FALSE, value |-> NoRegister]}

\* the map is keyed by the hash of the record content: its values differ
ResultMaps ==
    {m \in UNION {[1..n -> RegisterRecords] : n \in 0..MaxRecords} :
        \A i, j \in 1..Len(m) : i # j => m[i] # m[j]}

TheAddress == RegisterAddress("meta", "o1")

(***************************************************************************)
(* SpecMerge: one call of merge_split_register_records on any result map.  *)
(***************************************************************************)
InitMerge ==
    /\ result_map \in ResultMaps
    /\ merged = None
    /\ ReadIdle /\ AuditIdle /\ TaskIdle
    /\ SpendIdle /\ GetIdle /\ WalletIdle

MergeSplitRegisterRecords ==
    /\ merged = None
    /\ merged' = merge_split_register_records(TheAddress, result_map)
    /\ UNCHANGED <<result_map, read_vars, audit_vars, task_vars, spend_vars,
                   get_vars, wallet_vars>>

NextMerge == MergeSplitRegisterRecords
SpecMerge == InitMerge /\ [][NextMerge]_vars

(***************************************************************************)
(* Claims about merge_split_register_records (SpecMerge).                  *)
(***************************************************************************)
\* the record decodes to a register that passes verification
DecodesAndVerifies(record) ==
    /\ record.kind = "Register" /\ record.decodes
    /\ record.value.signature = record.value.owner
    /\ \A op \in record.value.ops : op.signer = record.value.owner

Verifying(map_values) ==
    {i \in 1..Len(map_values) : DecodesAndVerifies(map_values[i])}

\* C15: merge_split_register_records returns RegisterNotFound(address)
\* exactly when no record of the map decodes to a register that verifies,
\* and Ok otherwise.
C15_RegisterNotFoundIffNoneVerifies ==
    merged # None =>
        /\ Verifying(result_map) = {} <=> merged = RegisterNotFound(TheAddress)
        /\ Verifying(result_map) # {} <=> merged.tag = "Ok"

\* a map of several records, none of which verifies
C15_Witness ==
    /\ merged = RegisterNotFound(TheAddress)
    /\ Len(result_map) >= 2

\* the records that verify under the owner key of the address
VerifyingUnderOwner(map_values) ==
    {i \in Verifying(map_values) :
        /\ map_values[i].value.owner = TheAddress.owner
        /\ map_values[i].value.meta = TheAddress.meta}

Reordered(map_values, f) == [i \in 1..Len(map_values) |-> map_values[f[i]]]

\* C16: when merge_split_register_records returns a register, its ops are
\* the union of the ops of the records that verify under the owner key, and
\* every iteration order of the map gives the same result.
C16_MergeIsUnionOfVerified ==
    merged # None =>
        /\ merged.tag = "Ok" =>
              merged.register.ops =
                  UNION {result_map[i].value.ops :
                            i \in VerifyingUnderOwner(result_map)}
        /\ \A f \in Permutations(1..Len(result_map)) :
              merge_split_register_records(TheAddress,
                                           Reordered(result_map, f)) = merged

(***************************************************************************)
(* The reads of the client: get_chunk, get_spend_from_network and          *)
(* get_signed_register_from_network on the answer of the DHT layer.        *)
(***************************************************************************)
\* `?` on a NetworkError: the error is passed on as Error::Network
NetworkError(err) == [tag |-> "Network", err |-> err]

RecordKindMismatch(expected) ==
    [tag |-> "RecordKindMismatch", expected |-> expected]

\* Client::get_chunk
get_chunk(addr, response) ==
    IF response.tag = "Err" THEN NetworkError(response.err)
    ELSE IF response.kind = BadHeader
    THEN [tag |-> "Err", why |-> "RecordHeader"]
    ELSE IF response.kind = "Chunk"
    THEN IF response.decodes THEN [tag |-> "Ok", chunk |-> response.value]
         ELSE [tag |-> "Err", why |-> "deserialize"]
    ELSE RecordKindMismatch("Chunk")

\* Client::get_signed_register_from_network
get_signed_register_from_network(addr, response) ==
    IF response.tag = "Err"
    THEN IF response.err = "SplitRecord"
         THEN merge_split_register_records(addr, response.result_map)
         ELSE RegisterNotFound(addr)
    ELSE LET got == get_register_from_record(response)
         IN  IF got.tag = "Ok" THEN got ELSE RegisterNotFound(addr)

ReadOps == {"get_chunk", "get_spend_from_network",
            "get_signed_register_from_network"}

\* the kind of record each read asks for
ExpectedKind(op) ==
    IF op = "get_chunk" THEN "Chunk"
    ELSE IF op = "get_spend_from_network" THEN "Spend"
    ELSE "Register"

ReadAddresses(op) ==
    IF op = "get_chunk" THEN {<<"ChunkAddress", "c">>}
    ELSE IF op = "get_spend_from_network" THEN SpendAddresses
    ELSE {TheAddress}

\* errors of get_record_from_network that carry no record
PlainErrors == {[tag |-> "Err", err |-> e] : e \in {"RecordNotFound", "Other"}}

\* records of some kinds whose payload `value` does not matter to the read
RecordsOfKind(kinds, value) ==
    {[tag |-> "Record", kind |-> k, decodes |-> d, value |-> value]
        : k \in kinds, d \in BOOLEAN}

ReadResponses(op) ==
    IF op = "get_chunk"
    THEN PlainErrors \cup {[tag |-> "Err", err |-> "SplitRecord"]}
         \cup RecordsOfKind(RecordKinds \cup {BadHeader}, "c")
    ELSE IF op = "get_spend_from_network"
    THEN Responses \cup RecordsOfKind(RecordKinds \ {"Spend"}, <<>>)
    ELSE PlainErrors
         \cup {[tag |-> "Err", err |-> "SplitRecord", result_map |-> m]
                 : m \in ResultMaps}
         \cup {[tag |-> "Record", kind |-> r.kind, decodes |-> r.decodes,
                value |-> r.value] : r \in RegisterRecords}
         \cup RecordsOfKind(RecordKinds \ {"Register"}, NoRegister)

(***************************************************************************)
(* SpecRead: one read of the client on any answer of the DHT layer.        *)
(***************************************************************************)
InitRead ==
    /\ \E op \in ReadOps :
          /\ read_op \in {[op |-> op, address |-> a] : a \in ReadAddresses(op)}
          /\ read_response \in ReadResponses(op)
    /\ read_result = None
    /\ MergeIdle /\ AuditIdle /\ TaskIdle
    /\ SpendIdle /\ GetIdle /\ WalletIdle

ReadReturns(op, res) ==
    /\ read_result = None
    /\ read_op.op = op
    /\ read_result' = res
    /\ UNCHANGED <<read_op, read_response, merge_vars, audit_vars, task_vars,
                   spend_vars, get_vars, wallet_vars>>

GetChunk ==
    ReadReturns("get_chunk", get_chunk(read_op.address, read_response))

GetSpendFromNetwork ==
    ReadReturns("get_spend_from_network",
                get_spend_from_network(read_op.address, read_response))

GetSignedRegisterFromNetwork ==
    ReadReturns("get_signed_register_from_network",
                get_signed_register_from_network(read_op.address,
                                                 read_response))

NextRead ==
    \/ GetChunk
    \/ GetSpendFromNetwork
    \/ GetSignedRegisterFromNetwork

SpecRead == InitRead /\ [][NextRead]_vars

(***************************************************************************)
(* Claims about the reads (SpecRead).                                      *)
(***************************************************************************)
\* the record served has a kind other than the one the read asks for
OtherKindServed ==
    /\ read_response.tag = "Record"
    /\ read_response.kind \in RecordKinds \ {ExpectedKind(read_op.op)}

\* C17: when the record served has a kind other than the one requested,
\* each of get_chunk, get_spend_from_network and
\* get_signed_register_from_network returns RecordKindMismatch(expected).
C17_KindMismatchReported ==
    (read_result # None /\ OtherKindServed) =>
        read_result = RecordKindMismatch(ExpectedKind(read_op.op))

(***************************************************************************)
(* Client::verify_spend: the walk from a spend back to Genesis.  The       *)
(* network holds one spend per key; a transaction is named by its hash.    *)
(***************************************************************************)
AuditTxs   == {"g", "t1", "t2"}
GenesisTx  == "g"               \* GENESIS_CASHNOTE.src_tx
GenesisKey == "kg"              \* GENESIS_CASHNOTE.id
AuditKeys  == {"k1", "k2", "k3"}
FirstKey   == "k1"              \* the key of `addr`

\* what may be wrong in the graph: a spend that cannot be fetched, a spend
\* that was spent in another transaction than the one that lists its key as
\* an input, a transaction that gives out more than it takes in
NoFault == [kind |-> "none"]
Unfetchable(k)    == [kind |-> "unfetchable", key |-> k]
SpentElsewhere(k) == [kind |-> "spent_elsewhere", key |-> k]
NotConserving(tx) == [kind |-> "not_conserving", tx |-> tx]
Faults ==
    {NoFault}
    \cup {Unfetchable(k) : k \in AuditKeys \cup {GenesisKey}}
    \cup {SpentElsewhere(k) : k \in AuditKeys}
    \cup {NotConserving(tx) : tx \in AuditTxs}

\* a graph: the transaction each key was created in, the transaction that
\* lists it as an input, and the fault
SpendGraphs ==
    [parent_tx : [AuditKeys -> AuditTxs], input_of : [AuditKeys -> AuditTxs],
     fault : Faults]

\* parent_tx.inputs.iter().map(|input| input.unique_pubkey)
inputs(net, tx) ==
    {k \in AuditKeys : net.input_of[k] = tx}
        \cup (IF tx = GenesisTx THEN {GenesisKey} ELSE {})

\* the SignedSpend the network holds for a key
stored_spend(net, k) ==
    [unique_pubkey |-> k,
     parent_tx |-> IF k = GenesisKey THEN GenesisTx ELSE net.parent_tx[k],
     spent_tx  |-> IF net.fault = SpentElsewhere(k) THEN "elsewhere"
                   ELSE IF k = GenesisKey THEN GenesisTx
                   ELSE net.input_of[k]]

\* self.get_spend_from_network(SpendAddress::from_unique_pubkey(&k))
fetch_spend(net, k) ==
    IF net.fault = Unfetchable(k) THEN [tag |-> "Err", key |-> k]
    ELSE [tag |-> "Ok", spend |-> stored_spend(net, k)]

\* the mutant of verify_against_inputs_spent: any spends are accepted
accepts_any_spends(net, tx, spends) == TRUE

\* Transaction::verify_against_inputs_spent(spends): the spends cover the
\* inputs, each is a spend in this transaction, and the transaction does
\* not give out more than it takes in
verify_against_inputs_spent(net, tx, spends) ==
    /\ spends # {}
    /\ {sp.unique_pubkey : sp \in spends} = inputs(net, tx)
    /\ \A sp \in spends : sp.spent_tx = tx
    /\ net.fault # NotConserving(tx)

\* the mutant of reached_genesis: the spends are not looked at
genesis_tx_only(tx, spends) == tx = GenesisTx

\* parent_tx == GENESIS_CASHNOTE.src_tx && spends.iter().all(..) &&
\* spends.len() == 1
reached_genesis(tx, spends) ==
    /\ tx = GenesisTx
    /\ \A sp \in spends : sp.unique_pubkey = GenesisKey
    /\ Cardinality(spends) = 1

\* the mutant of not_yet_verified: nothing is filtered out
not_filtered(next_gen, verified) == next_gen

\* next_gen_tx.into_iter().filter(|tx| !verified_tx.contains(&tx.hash()))
not_yet_verified(next_gen, verified) == next_gen \ verified

WalkError(at_depth, why, tx) ==
    [tag |-> "CouldNotVerifyTransfer", depth |-> at_depth, why |-> why,
     tx |-> tx]

FirstSpendError == [tag |-> "CouldNotVerifyTransfer", why |-> "first spend"]

AuditReturns(res) ==
    /\ audit_result' = res
    /\ audit_pc' = "done"

\* let first_spend = self.get_spend_from_network(addr)..?; if !to_genesis
\* { return Ok(()) }; txs_to_verify = {first_spend.spend.parent_tx}
FirstSpend ==
    /\ audit_pc = "start"
    /\ LET first_spend == fetch_spend(spend_graph, FirstKey)
       IN  IF first_spend.tag = "Err"
           THEN AuditReturns(FirstSpendError) /\ UNCHANGED txs_to_verify
           ELSE IF ~to_genesis
           THEN AuditReturns(Ok) /\ UNCHANGED txs_to_verify
           ELSE /\ txs_to_verify' = {first_spend.spend.parent_tx}
                /\ audit_pc' = "while"
                /\ UNCHANGED audit_result
    /\ UNCHANGED <<spend_graph, to_genesis, next_gen_tx, verified_tx, depth,
                   processed>>

\* while !txs_to_verify.is_empty() { let mut next_gen_tx = BTreeSet::new();
\* and, when it is empty, the final Ok(())
WhileHead ==
    /\ audit_pc = "while"
    /\ IF txs_to_verify = {}
       THEN AuditReturns(Ok) /\ UNCHANGED next_gen_tx
       ELSE /\ audit_pc' = "for"
            /\ next_gen_tx' = {}
            /\ UNCHANGED audit_result
    /\ UNCHANGED <<spend_graph, to_genesis, txs_to_verify, verified_tx, depth,
                   processed>>

\* one turn of `for parent_tx in txs_to_verify`: the spends of its inputs
\* are fetched, then the transaction is the Genesis one or is verified
\* against them; an error of either returns at once
ProcessTx(parent_tx) ==
    /\ audit_pc = "for"
    /\ parent_tx \in txs_to_verify
    /\ processed' = Append(processed, parent_tx)
    /\ LET fetched == {fetch_spend(spend_graph, k)
                          : k \in inputs(spend_graph, parent_tx)}
           spends  == {r.spend : r \in {f \in fetched : f.tag = "Ok"}}
       IN  IF \E r \in fetched : r.tag = "Err"
           THEN /\ AuditReturns(WalkError(depth,
                        "Failed to get spends from network", parent_tx))
                /\ UNCHANGED <<txs_to_verify, next_gen_tx, verified_tx>>
           ELSE IF reached_genesis(parent_tx, spends)
           THEN /\ verified_tx' = verified_tx \cup {parent_tx}
                /\ txs_to_verify' = txs_to_verify \ {parent_tx}
                /\ UNCHANGED <<next_gen_tx, audit_pc, audit_result>>
           ELSE IF ~verify_against_inputs_spent(spend_graph, parent_tx, spends)
           THEN /\ AuditReturns(WalkError(depth,
                        "Failed to verify parent Tx", parent_tx))
                /\ UNCHANGED <<txs_to_verify, next_gen_tx, verified_tx>>
           ELSE /\ verified_tx' = verified_tx \cup {parent_tx}
                /\ next_gen_tx' =
                      next_gen_tx \cup {sp.parent_tx : sp \in spends}
                /\ txs_to_verify' = txs_to_verify \ {parent_tx}
                /\ UNCHANGED <<audit_pc, audit_result>>
    /\ UNCHANGED <<spend_graph, to_genesis, depth>>

\* the mutant of EndGeneration: depth is not counted
EndGenerationKeepsDepth ==
    /\ audit_pc = "for"
    /\ txs_to_verify = {}
    /\ txs_to_verify' = not_yet_verified(next_gen_tx, verified_tx)
    /\ audit_pc' = "while"
    /\ UNCHANGED <<spend_graph, to_genesis, next_gen_tx, verified_tx, depth,
                   audit_result, processed>>

\* after the for loop: txs_to_verify = next_gen_tx filtered; depth += 1
EndGeneration ==
    /\ audit_pc = "for"
    /\ txs_to_verify = {}
    /\ txs_to_verify' = not_yet_verified(next_gen_tx, verified_tx)
    /\ depth' = depth + 1
    /\ audit_pc' = "while"
    /\ UNCHANGED <<spend_graph, to_genesis, next_gen_tx, verified_tx,
                   audit_result, processed>>

(***************************************************************************)
(* SpecAudit: one call of verify_spend on any graph; SpecAuditLive adds    *)
(* that the call keeps running (its future is polled until it returns).   *)
(***************************************************************************)
InitAudit ==
    /\ spend_graph \in SpendGraphs
    /\ to_genesis \in BOOLEAN
    /\ txs_to_verify = {} /\ next_gen_tx = {} /\ verified_tx = {}
    /\ depth = 0 /\ audit_pc = "start" /\ audit_result = None
    /\ processed = <<>>
    /\ MergeIdle /\ ReadIdle /\ TaskIdle
    /\ SpendIdle /\ GetIdle /\ WalletIdle

NextAudit ==
    \/ FirstSpend
    \/ WhileHead
    \/ \E parent_tx \in AuditTxs : ProcessTx(parent_tx)
    \/ EndGeneration

\* the parts of the state verify_spend does not touch
not_audit_vars ==
    <<merge_vars, read_vars, task_vars, spend_vars, get_vars, wallet_vars>>

SpecAudit ==
    InitAudit /\ [][NextAudit /\ UNCHANGED not_audit_vars]_vars

SpecAuditLive ==
    InitAudit
    /\ [][NextAudit /\ UNCHANGED not_audit_vars]_vars
    /\ WF_vars(NextAudit /\ UNCHANGED not_audit_vars)

(***************************************************************************)
(* Claims about verify_spend (SpecAudit, SpecAuditLive).                   *)
(***************************************************************************)
AuditDone == audit_pc = "done"

\* every input spend of the transaction can be fetched
AllFetched(net, tx) ==
    \A k \in inputs(net, tx) : net.fault # Unfetchable(k)

\* the walk ends at this transaction: it is the Genesis transaction and its
\* only input is the Genesis key
IsGenesisTerminator(net, tx) ==
    tx = GenesisTx /\ inputs(net, tx) = {GenesisKey}

\* the transaction has inputs, each input was spent in it, and it does not
\* give out more than it takes in
PassesInputsSpent(net, tx) ==
    /\ inputs(net, tx) # {}
    /\ \A k \in inputs(net, tx) : net.fault # SpentElsewhere(k)
    /\ net.fault # NotConserving(tx)

\* the transactions the inputs of tx were created in
ParentsOf(net, tx) ==
    IF IsGenesisTerminator(net, tx) THEN {}
    ELSE {IF k = GenesisKey THEN GenesisTx ELSE net.parent_tx[k]
            : k \in inputs(net, tx)}

\* the transactions n steps back from the first spend and no nearer
RECURSIVE Generation(_, _)
Generation(net, n) ==
    IF n = 0 THEN {net.parent_tx[FirstKey]}
    ELSE UNION {ParentsOf(net, tx) : tx \in Generation(net, n - 1)}
            \ UNION {Generation(net, i) : i \in 0..(n - 1)}

\* the ancestor transactions of the first spend
Ancestors(net) ==
    UNION {Generation(net, n) : n \in 0..Cardinality(AuditTxs)}

TxGood(net, tx) ==
    /\ AllFetched(net, tx)
    /\ IsGenesisTerminator(net, tx) \/ PassesInputsSpent(net, tx)

Range(seq) == {seq[i] : i \in 1..Len(seq)}

NoRepeat(seq) == \A i, j \in 1..Len(seq) : i # j => seq[i] # seq[j]

C19_OkIffAllAncestorsGood ==
    (AuditDone /\ to_genesis) =>
        (audit_result = Ok <=>
            /\ spend_graph.fault # Unfetchable(FirstKey)
            /\ \A tx \in Ancestors(spend_graph) : TxGood(spend_graph, tx))

\* a walk of several generations was refused for a bad ancestor
C19_Witness ==
    /\ AuditDone /\ to_genesis /\ audit_result # Ok
    /\ Len(processed) >= 2
    /\ spend_graph.fault.kind \in {"spent_elsewhere", "not_conserving"}

WalkFailed ==
    /\ AuditDone /\ to_genesis
    /\ audit_result # Ok /\ audit_result # FirstSpendError

\* C20: when the walk fails, the failing transaction is the last one
\* processed and the first one that is not good, the result is
\* CouldNotVerifyTransfer, and its depth is the number of generations
\* completed before the generation of the failing transaction.
C20_FirstFailureStopsWalk ==
    /\ AuditDone => ~ENABLED NextAudit
    /\ WalkFailed =>
        LET n == Len(processed)
        IN  /\ audit_result.tag = "CouldNotVerifyTransfer"
            /\ n > 0
            /\ audit_result.tx = processed[n]
            /\ ~TxGood(spend_graph, processed[n])
            /\ \A i \in 1..(n - 1) : TxGood(spend_graph, processed[i])
            /\ processed[n] \in Generation(spend_graph, audit_result.depth)
            /\ \A d \in 0..(audit_result.depth - 1) :
                  Generation(spend_graph, d) \subseteq Range(processed)

\* a walk failed after at least one completed generation
C20_Witness ==
    /\ WalkFailed
    /\ audit_result.depth >= 1

(***************************************************************************)
(* Client::follow_spend: the walk from a spend forward to the unspent      *)
(* outputs.  A transaction is named by its hash, a spend address by its    *)
(* key.  Every fetch is a step of its own, so that the fetches in flight   *)
(* at one time are part of the state.                                      *)
(***************************************************************************)
MaxCalls == 2       \* how many calls of follow_spend one behaviour makes

FollowTxs   == {"t1", "t2", "t3"}
FollowKeys  == {"k1", "k2", "k3", "k4"}
FollowFirst == "k1"         \* the key of spend_addr
Unspent     == "unspent"    \* the network has no spend record of the key
FetchFails  == "error"      \* the fetch fails in any other way

\* descendant_tx.outputs: the keys each transaction creates
OutputLayouts ==
    {[tx \in FollowTxs |->
         CASE tx = "t1" -> {"k2", "k3"}
           [] tx = "t2" -> {"k4"}
           [] tx = "t3" -> {"k1"}],
     [tx \in FollowTxs |->
         CASE tx = "t1" -> {"k2"}
           [] tx = "t2" -> {"k3", "k4"}
           [] tx = "t3" -> {}]}

\* a network: the outputs of each transaction and, for each key, the
\* transaction it was spent in (or that it is unspent, or cannot be fetched)
FollowNets ==
    [outputs : OutputLayouts,
     spent : [FollowKeys -> FollowTxs \cup {Unspent, FetchFails}]]

\* descendant_tx.outputs.iter().map(|output| output.unique_pubkey)
outputs(net, tx) == net.outputs[tx]

\* self.get_spend_from_network(a): RecordNotFound is MissingSpendRecord(a)
get_spend(net, k) ==
    IF net.spent[k] = Unspent
    THEN [tag |-> "Err", err |-> "MissingSpendRecord", addr |-> k]
    ELSE IF net.spent[k] = FetchFails
    THEN [tag |-> "Err", err |-> "CouldNotVerifyTransfer", addr |-> k]
    ELSE [tag |-> "Ok",
          spend |-> [unique_pubkey |-> k, spent_tx |-> net.spent[k]]]

\* split_utxos_and_spends(spends_res)
split_utxos_and_spends(res) ==
    IF \E r \in res : r.tag = "Err" /\ r.err # "MissingSpendRecord"
    THEN [tag |-> "Err"]
    ELSE [tag |-> "Ok",
          utxos |-> {r.addr : r \in {x \in res : x.tag = "Err"}},
          spends |-> {r.spend : r \in {x \in res : x.tag = "Ok"}}]

\* what redeem_royalties can meet: LocalWallet::load_from fails,
\* Transfer::create fails, self.receive fails, deposit_and_store_to_disk
\* fails, or every royalty is deposited
RedeemOutcomes ==
    {"wallet_unloadable", "transfer_create_fails", "receive_fails",
     "deposit_fails", "deposited"}

\* redeem_royalties(find_royalties, &spends, root_dir); every spend carries
\* one royalty.  The result says whether the call panics and which calls on
\* the wallet it made.
redeem_royalties(find, spends, outcome) ==
    IF ~find
    THEN [panics |-> FALSE, loaded |-> FALSE, stored |-> FALSE]
    ELSE IF outcome = "wallet_unloadable"
    THEN [panics |-> TRUE, loaded |-> TRUE, stored |-> FALSE]
    ELSE [panics |-> FALSE, loaded |-> TRUE,
          stored |-> spends # {}
                     /\ outcome \in {"deposit_fails", "deposited"}]

\* the mutant of not_yet_followed: nothing is filtered out
followed_again(next_gen, verified) == next_gen

\* the mutant of not_yet_followed: nothing is followed further
followed_no_further(next_gen, verified) == {}

\* next_gen_tx.into_iter().filter(|tx| !verified_tx.contains(&tx.hash()))
not_yet_followed(next_gen, verified) == next_gen \ verified

\* the mutant of extend_utxos: the generation replaces what was found
replace_utxos(all, found) == found

\* all_utxos.extend(next_gen_utxos)
extend_utxos(all, found) == all \cup found

OkUtxos(utxos) == [tag |-> "Ok", utxos |-> utxos]

\* the locals of a call that has not started its loop, or has lost them
FollowLocalsEmpty ==
    /\ txs_to_follow' = {} /\ follow_todo' = {} /\ descendant_tx' = "none"
    /\ in_flight' = {} /\ spends_res' = {}
    /\ follow_next_gen_tx' = {} /\ next_gen_utxos' = {} /\ all_utxos' = {}
    /\ follow_verified_tx' = {} /\ gen' = 0 /\ joined_in_gen' = {}

FollowReturns(res) ==
    /\ follow_result' = res
    /\ follow_pc' = "done"
    /\ follow_calls' =
          Append(follow_calls, [addr |-> spend_addr, result |-> res])
    /\ fetches_of' = fetches_of

\* let first_spend = self.get_spend_from_network(spend_addr)..?;
\* txs_to_follow = {first_spend.spend.spent_tx}
FollowFirstSpend ==
    /\ follow_pc = "start"
    /\ LET first_spend == get_spend(follow_net, spend_addr)
       IN  IF first_spend.tag = "Err"
           THEN FollowReturns(FirstSpendError) /\ UNCHANGED txs_to_follow
           ELSE /\ txs_to_follow' = {first_spend.spend.spent_tx}
                /\ follow_pc' = "while"
                /\ UNCHANGED <<follow_result, follow_calls, fetches_of>>
    /\ UNCHANGED <<follow_net, spend_addr, find_royalties, redeem_outcome,
                   follow_todo, descendant_tx, in_flight, spends_res,
                   follow_next_gen_tx, next_gen_utxos, all_utxos,
                   follow_verified_tx, gen, wallet_loaded, wallet_stored,
                   joined_in_gen>>

\* while !txs_to_follow.is_empty() { the three next_gen sets are new; and,
\* when it is empty, the final Ok(all_utxos)
FollowWhileHead ==
    /\ follow_pc = "while"
    /\ IF txs_to_follow = {}
       THEN /\ FollowReturns(OkUtxos(all_utxos))
            /\ UNCHANGED <<follow_todo, follow_next_gen_tx, next_gen_utxos,
                           joined_in_gen>>
       ELSE /\ follow_pc' = "for"
            /\ follow_todo' = txs_to_follow
            /\ follow_next_gen_tx' = {}
            /\ next_gen_utxos' = {}
            /\ joined_in_gen' = {}
            /\ UNCHANGED <<follow_result, follow_calls, fetches_of>>
    /\ UNCHANGED <<follow_net, spend_addr, find_royalties, redeem_outcome,
                   txs_to_follow, descendant_tx, in_flight, spends_res,
                   all_utxos, follow_verified_tx, gen, wallet_loaded,
                   wallet_stored>>

\* one turn of `for descendant_tx in txs_to_follow.iter()` up to the await:
\* tasks = addrs_to_follow.map(|a| self.get_spend_from_network(a)), and
\* join_all(tasks) starts to poll every one of them
StartFetches(tx) ==
    /\ follow_pc = "for"
    /\ tx \in follow_todo
    /\ descendant_tx' = tx
    /\ in_flight' = outputs(follow_net, tx)
    /\ spends_res' = {}
    /\ follow_pc' = "join"
    /\ UNCHANGED <<follow_net, spend_addr, find_royalties, redeem_outcome,
                   txs_to_follow, follow_todo, follow_next_gen_tx,
                   next_gen_utxos, all_utxos, follow_verified_tx, gen,
                   follow_result, wallet_loaded, wallet_stored, joined_in_gen,
                   follow_calls>>
    /\ fetches_of' = [fetches_of EXCEPT ![tx] = @ + 1]

\* one of the fetches polled by join_all completes
FetchCompletes(k) ==
    /\ follow_pc = "join"
    /\ k \in in_flight
    /\ in_flight' = in_flight \ {k}
    /\ spends_res' = spends_res \cup {get_spend(follow_net, k)}
    /\ UNCHANGED <<follow_net, spend_addr, find_royalties, redeem_outcome,
                   txs_to_follow, follow_todo, descendant_tx,
                   follow_next_gen_tx, next_gen_utxos, all_utxos,
                   follow_verified_tx, gen, follow_pc, follow_result,
                   wallet_loaded, wallet_stored, joined_in_gen, follow_calls,
                   fetches_of>>

\* join_all(tasks).await returns: the rest of the turn of the for loop, from
\* split_utxos_and_spends to next_gen_tx.extend(..)
JoinAll ==
    /\ follow_pc = "join"
    /\ in_flight = {}
    /\ joined_in_gen' = joined_in_gen \cup outputs(follow_net, descendant_tx)
    /\ LET split == split_utxos_and_spends(spends_res)
       IN  IF split.tag = "Err"
           THEN /\ FollowReturns(WalkError(gen,
                        "Failed to get spends from network", descendant_tx))
                /\ UNCHANGED <<follow_todo, follow_next_gen_tx,
                               next_gen_utxos, wallet_loaded, wallet_stored>>
           ELSE LET redeemed == redeem_royalties(find_royalties, split.spends,
                                                 redeem_outcome)
                IN  /\ wallet_loaded' = (wallet_loaded \/ redeemed.loaded)
                    /\ wallet_stored' = (wallet_stored \/ redeemed.stored)
                    /\ UNCHANGED <<follow_result, follow_calls, fetches_of>>
                    /\ IF redeemed.panics
                       THEN /\ follow_pc' = "panicked"
                            /\ UNCHANGED <<follow_todo, follow_next_gen_tx,
                                           next_gen_utxos>>
                       ELSE /\ next_gen_utxos' =
                                  next_gen_utxos \cup split.utxos
                            /\ follow_next_gen_tx' = follow_next_gen_tx
                                  \cup {sp.spent_tx : sp \in split.spends}
                            /\ follow_todo' = follow_todo \ {descendant_tx}
                            /\ follow_pc' = "for"
    /\ UNCHANGED <<follow_net, spend_addr, find_royalties, redeem_outcome,
                   txs_to_follow, descendant_tx, in_flight, spends_res,
                   all_utxos, follow_verified_tx, gen>>

\* after the for loop: gen += 1; all_utxos.extend(next_gen_utxos);
\* verified_tx.extend(..); txs_to_follow = next_gen_tx filtered
FollowEndGeneration ==
    /\ follow_pc = "for"
    /\ follow_todo = {}
    /\ gen' = gen + 1
    /\ all_utxos' = extend_utxos(all_utxos, next_gen_utxos)
    /\ follow_verified_tx' = follow_verified_tx \cup txs_to_follow
    /\ txs_to_follow' =
          not_yet_followed(follow_next_gen_tx,
                           follow_verified_tx \cup txs_to_follow)
    /\ follow_pc' = "while"
    /\ UNCHANGED <<follow_net, spend_addr, find_royalties, redeem_outcome,
                   follow_todo, descendant_tx, in_flight, spends_res,
                   follow_next_gen_tx, next_gen_utxos, follow_result,
                   wallet_loaded, wallet_stored, joined_in_gen, follow_calls,
                   fetches_of>>

\* the future of follow_spend is dropped while it awaits join_all: the
\* fetches are futures it owns (they are not spawned), they go with it
FollowDropped ==
    /\ follow_pc = "join"
    /\ follow_pc' = "dropped"
    /\ FollowLocalsEmpty
    /\ UNCHANGED <<follow_net, spend_addr, find_royalties, redeem_outcome,
                   follow_result, wallet_loaded, wallet_stored, follow_calls,
                   fetches_of>>

\* a later call of follow_spend on the same network, from another spend
FollowAgain(addr) ==
    /\ follow_pc = "done"
    /\ Len(follow_calls) < MaxCalls
    /\ spend_addr' = addr
    /\ follow_pc' = "start"
    /\ follow_result' = None
    /\ FollowLocalsEmpty
    /\ UNCHANGED <<follow_net, find_royalties, redeem_outcome, wallet_loaded,
                   wallet_stored, follow_calls>>
    /\ fetches_of' = [tx \in FollowTxs |-> 0]

(***************************************************************************)
(* SpecFollow: one call of follow_spend on any network.  SpecFollowAgain:  *)
(* calls of follow_spend one after the other on one unchanging network,    *)
(* without royalties.  SpecWalks: one call of either audit walk.           *)
(***************************************************************************)
FollowStart ==
    /\ follow_net \in FollowNets
    /\ spend_addr = FollowFirst
    /\ txs_to_follow = {} /\ follow_todo = {} /\ descendant_tx = "none"
    /\ in_flight = {} /\ spends_res = {}
    /\ follow_next_gen_tx = {} /\ next_gen_utxos = {} /\ all_utxos = {}
    /\ follow_verified_tx = {} /\ gen = 0
    /\ follow_pc = "start" /\ follow_result = None
    /\ wallet_loaded = FALSE /\ wallet_stored = FALSE
    /\ joined_in_gen = {} /\ follow_calls = <<>>
    /\ fetches_of = [tx \in FollowTxs |-> 0]

\* the parts of the state follow_spend does not touch
not_follow_vars ==
    <<merge_vars, read_vars, audit_vars, new_vars, upload_vars, call_vars,
      spend_vars, get_vars, wallet_vars>>

OthersIdle ==
    /\ MergeIdle /\ ReadIdle /\ AuditIdle /\ NewIdle /\ UploadIdle
    /\ CallIdle
    /\ SpendIdle /\ GetIdle /\ WalletIdle

InitFollow ==
    /\ FollowStart
    /\ find_royalties \in BOOLEAN
    /\ redeem_outcome \in RedeemOutcomes
    /\ OthersIdle

NextFollow ==
    \/ FollowFirstSpend
    \/ FollowWhileHead
    \/ \E tx \in FollowTxs : StartFetches(tx)
    \/ \E k \in FollowKeys : FetchCompletes(k)
    \/ JoinAll
    \/ FollowEndGeneration
    \/ FollowDropped

SpecFollow ==
    InitFollow /\ [][NextFollow /\ UNCHANGED not_follow_vars]_vars

InitFollowAgain ==
    /\ FollowStart
    /\ find_royalties = FALSE
    /\ redeem_outcome = "deposited"
    /\ OthersIdle

NextFollowAgain ==
    \/ NextFollow
    \/ \E addr \in FollowKeys : FollowAgain(addr)

SpecFollowAgain ==
    InitFollowAgain /\ [][NextFollowAgain /\ UNCHANGED not_follow_vars]_vars

InitWalks ==
    \/ InitAudit
    \/ /\ FollowStart
       /\ find_royalties = FALSE
       /\ redeem_outcome = "deposited"
       /\ OthersIdle

NextWalks ==
    \/ NextAudit /\ UNCHANGED not_audit_vars
    \/ NextFollow /\ UNCHANGED not_follow_vars

SpecWalks == InitWalks /\ [][NextWalks]_vars

(***************************************************************************)
(* Claims about the audit walks (SpecWalks, SpecFollow, SpecFollowAgain).  *)
(***************************************************************************)
FollowDone == follow_pc = "done"

\* the transactions reached from a set of transactions in at most n steps,
\* a step going from a transaction to the spent_tx of a spent output of it
RECURSIVE ReachedIn(_, _, _)
ReachedIn(net, txs, n) ==
    IF n = 0 THEN txs
    ELSE ReachedIn(net,
             txs \cup {net.spent[k] : k \in
                          {o \in UNION {net.outputs[tx] : tx \in txs} :
                              net.spent[o] \in FollowTxs}},
             n - 1)

\* the transactions reachable from the spent_tx of the spend of a key
Descendants(net, k) ==
    IF net.spent[k] \in FollowTxs
    THEN ReachedIn(net, {net.spent[k]}, Cardinality(FollowTxs))
    ELSE {}

\* the outputs of the transactions reachable from the spend of a key
DescendantOutputs(net, k) ==
    UNION {net.outputs[tx] : tx \in Descendants(net, k)}

\* C21: in verify_spend and in follow_spend the set of verified
\* transaction hashes only grows while the walk runs, and no transaction
\* whose hash is in it is in the frontier of a later generation.
C21_VerifiedOnlyGrows ==
    /\ [][/\ verified_tx \subseteq verified_tx'
          /\ follow_pc' # "dropped"
                => follow_verified_tx \subseteq follow_verified_tx']_vars
    /\ [](txs_to_verify \cap verified_tx = {})
    /\ [](txs_to_follow \cap follow_verified_tx = {})

\* a frontier of follow_spend from which a transaction met again (one that
\* was already verified) has been left out
C21_Witness ==
    /\ follow_pc = "while"
    /\ Cardinality(follow_verified_tx) >= 2
    /\ follow_next_gen_tx \cap follow_verified_tx # {}
    /\ txs_to_follow # {}

\* C22: on an unchanging network follow_spend returns Ok exactly when the
\* first spend and every output of a reachable transaction can be fetched
\* or is authoritatively missing, and then it returns exactly the outputs
\* of the reachable transactions the network has no spend record of.
C22_ReturnsUnspentDescendants ==
    FollowDone =>
        /\ follow_result.tag = "Ok" <=>
              /\ follow_net.spent[spend_addr] \in FollowTxs
              /\ \A k \in DescendantOutputs(follow_net, spend_addr) :
                     follow_net.spent[k] # FetchFails
        /\ follow_result.tag = "Ok" =>
              follow_result.utxos =
                 {k \in DescendantOutputs(follow_net, spend_addr) :
                     follow_net.spent[k] = Unspent}

\* a walk of two generations or more that returned two unspent outputs and
\* passed a spent one
C22_Witness ==
    /\ FollowDone
    /\ follow_result.tag = "Ok"
    /\ gen >= 2
    /\ Cardinality(follow_result.utxos) >= 2
    /\ \E k \in DescendantOutputs(follow_net, spend_addr) :
          follow_net.spent[k] \in FollowTxs

\* d is the spend of an output of a transaction reachable from spend a
IsDescendant(net, a, d) ==
    /\ d \in DescendantOutputs(net, a)
    /\ net.spent[d] \in FollowTxs

\* C23: for every spend d that is a descendant of spend a, a call of
\* follow_spend(a) that returns Ok returns a superset of what
\* follow_spend(d) returns, and follow_spend(d) returns Ok too.
C23_AncestorResultIsSuperset ==
    \A i \in DOMAIN follow_calls : \A j \in DOMAIN follow_calls :
        LET a == follow_calls[i]
            d == follow_calls[j]
        IN  (a.result.tag = "Ok" /\ IsDescendant(follow_net, a.addr, d.addr))
                => /\ d.result.tag = "Ok"
                   /\ d.result.utxos \subseteq a.result.utxos

\* two calls returned, the second from a descendant of the first; it found
\* an unspent output, and the first found more
C23_Witness ==
    /\ Len(follow_calls) = 2
    /\ IsDescendant(follow_net, follow_calls[1].addr, follow_calls[2].addr)
    /\ follow_calls[1].result.tag = "Ok"
    /\ follow_calls[2].result.tag = "Ok"
    /\ follow_calls[2].result.utxos # {}
    /\ follow_calls[2].result.utxos # follow_calls[1].result.utxos

\* C24: royalty redemption is best effort: whatever fails inside it, the
\* walk goes on and follow_spend returns what it returns without royalties;
\* with find_royalties = false the wallet is neither loaded nor stored.
C24_RoyaltiesAreBestEffort ==
    /\ follow_pc # "panicked"
    /\ (FollowDone /\ follow_result.tag = "Ok") =>
           follow_result.utxos =
              {k \in DescendantOutputs(follow_net, spend_addr) :
                  follow_net.spent[k] = Unspent}
    /\ ~find_royalties => (~wallet_loaded /\ ~wallet_stored)

\* C25: the fetches of one generation are all started before any of them
\* is joined (one join per generation), and fetches start only when no
\* fetch is in flight.
C25_GenerationFetchedTogether ==
    [][(in_flight' \ in_flight # {})
          => (in_flight = {} /\ joined_in_gen = {})]_vars

(***************************************************************************)
(* Client::new: the constructor, the three tasks it spawns, the channel of *)
(* network events (swarm driver to event handler) and the broadcast        *)
(* channel of client events (event handler to the connect loop).  Time is  *)
(* not measured: a timeout may elapse whenever its future is pending.      *)
(***************************************************************************)
CLOSE_GROUP_SIZE == 2       \* the close group of the model is small
MaxEvents   == 3            \* the network events the swarm driver sends
MaxInactive == 1            \* the inactivity timeouts that elapse

CONNECTION_TIMEOUT == 180   \* Duration::from_secs(180)
INACTIVITY_TIMEOUT == 30    \* Duration::from_secs(30)

\* the argument connection_timeout: Option<Duration>
Some(secs) == [tag |-> "Some", secs |-> secs]
ConnectionTimeouts == {None, Some(60)}

\* connection_timeout.unwrap_or(CONNECTION_TIMEOUT)
unwrap_or(option, default) ==
    IF option.tag = "Some" THEN option.secs ELSE default

\* NetworkEvent: PeerAdded, a Gossipsub event (GossipsubMsgPublished takes
\* the arm of GossipsubMsgReceived), and any other
NetworkEvents == {"PeerAdded", "GossipsubMsgReceived", "Other"}

\* ClientEvent
ConnectedToNetwork == [event |-> "ConnectedToNetwork"]
InactiveClient(timeout) == [event |-> "InactiveClient", timeout |-> timeout]
GossipsubMsg == [event |-> "GossipsubMsg"]

ConnectionTimeout(secs) == [tag |-> "ConnectionTimeout", secs |-> secs]

\* the mutant of StatementOrder: the subscription is made after the spawns
SubscribeAfterSpawns ==
    <<"spawn_swarm_driver", "spawn_dial", "spawn_event_handler", "subscribe",
      "first_tick", "select">>

\* the statements of Client::new, in the order of the source
StatementOrder ==
    <<"subscribe", "spawn_swarm_driver", "spawn_dial", "spawn_event_handler",
      "first_tick", "select">>

\* the statement after a statement
Following(statement) ==
    LET i == CHOOSE n \in DOMAIN StatementOrder :
                 StatementOrder[n] = statement
    IN  StatementOrder[i + 1]

\* the mutant of enough_peers: one peer more is asked for
more_than_enough_peers(n) == n > CLOSE_GROUP_SIZE

\* self.peers_added >= CLOSE_GROUP_SIZE
enough_peers(n) == n >= CLOSE_GROUP_SIZE

\* handle_network_event(&mut self, event): the new peers_added and the
\* event it broadcasts, if any
handle_network_event(self_peers_added, event) ==
    IF event = "PeerAdded"
    THEN [peers_added |-> self_peers_added + 1,
          broadcast |-> IF enough_peers(self_peers_added + 1)
                        THEN {ConnectedToNetwork} ELSE {}]
    ELSE IF event = "GossipsubMsgReceived"
    THEN [peers_added |-> self_peers_added, broadcast |-> {GossipsubMsg}]
    ELSE [peers_added |-> self_peers_added, broadcast |-> {}]

\* the channel has a receiver: client_events_rx, or the receiver of the
\* task spawned before Ok(client)
HasReceiver == subscribed \/ "events_drain" \in running

\* events_channel.broadcast(event) for each event of a set of at most one:
\* every receiver gets it; without a receiver the send fails and the event
\* is lost.  The log keeps the event, how many network events were handled
\* by then, whether client_events_rx got it and whether Client::new had
\* returned.
Broadcast(events, handled_then) ==
    /\ client_events_rx' =
          IF subscribed /\ events # {}
          THEN Append(client_events_rx, CHOOSE e \in events : TRUE)
          ELSE client_events_rx
    /\ broadcast_log' =
          IF events = {} THEN broadcast_log
          ELSE Append(broadcast_log,
                      [event |-> CHOOSE e \in events : TRUE,
                       at |-> handled_then,
                       sent |-> HasReceiver,
                       received |-> subscribed,
                       returned |-> new_pc = "returned"])

\* the mutant of ends_connect_loop: any event ends the connect loop
any_event_ends_loop(event) == TRUE

\* the arm of the match that breaks the connect loop
ends_connect_loop(event) == event = ConnectedToNetwork

\* let mut client_events_rx = client.events_channel();
Subscribe ==
    /\ new_pc = "subscribe"
    /\ new_pc' = Following("subscribe")
    /\ subscribed' = TRUE
    /\ UNCHANGED <<connection_timeout, running, events_left, network_events,
                   peers_added, client_events_rx, is_connected, new_result,
                   inactive_left, broadcast_log, observed, handled>>

\* spawn(..): the task runs from now on, its JoinHandle is only kept in a
\* local that is never awaited nor aborted
Spawn(statement, task) ==
    /\ new_pc = statement
    /\ new_pc' = Following(statement)
    /\ running' = running \cup {task}
    /\ UNCHANGED <<connection_timeout, events_left, network_events,
                   peers_added, subscribed, client_events_rx, is_connected,
                   new_result, inactive_left, broadcast_log, observed,
                   handled>>

SpawnSwarmDriver == Spawn("spawn_swarm_driver", "swarm_driver")
SpawnDial == Spawn("spawn_dial", "dial")
SpawnEventHandler == Spawn("spawn_event_handler", "event_handler")

\* the dial task has dialed every peer: it ends by itself
DialEnds ==
    /\ "dial" \in running
    /\ running' = running \ {"dial"}
    /\ UNCHANGED <<connection_timeout, new_pc, events_left, network_events,
                   peers_added, subscribed, client_events_rx, is_connected,
                   new_result, inactive_left, broadcast_log, observed,
                   handled>>

\* swarm_driver.run() sends a NetworkEvent to network_event_receiver
DriverSends(event) ==
    /\ "swarm_driver" \in running
    /\ events_left > 0
    /\ events_left' = events_left - 1
    /\ network_events' = Append(network_events, event)
    /\ UNCHANGED <<connection_timeout, new_pc, running, peers_added,
                   subscribed, client_events_rx, is_connected, new_result,
                   inactive_left, broadcast_log, observed, handled>>

\* the event handler: timeout(..recv()) is Ok(Some(the_event)), then
\* client_clone.handle_network_event(the_event); its error is only logged
HandlerReceives ==
    /\ "event_handler" \in running
    /\ network_events # <<>>
    /\ LET done == handle_network_event(peers_added, Head(network_events))
       IN  /\ peers_added' = done.peers_added
           /\ Broadcast(done.broadcast, Len(handled) + 1)
    /\ network_events' = Tail(network_events)
    /\ handled' = Append(handled, Head(network_events))
    /\ UNCHANGED <<connection_timeout, new_pc, running, events_left,
                   subscribed, is_connected, new_result, inactive_left,
                   observed>>

\* the mutant of after_inactivity: the event handler ends
handler_ends(tasks) == tasks \ {"event_handler"}

\* the end of the arm Err(_elapse_err): no break, no return; the tasks that
\* run are the same
after_inactivity(tasks) == tasks

\* the event handler: timeout(..recv()) is Err(elapsed): InactiveClient is
\* broadcast, the error of the broadcast is only logged, the loop goes on
HandlerInactive ==
    /\ "event_handler" \in running
    /\ network_events = <<>>
    /\ inactive_left > 0
    /\ inactive_left' = inactive_left - 1
    /\ Broadcast({InactiveClient(INACTIVITY_TIMEOUT)}, Len(handled))
    /\ running' = after_inactivity(running)
    /\ UNCHANGED <<connection_timeout, new_pc, events_left, network_events,
                   peers_added, subscribed, is_connected, new_result,
                   observed, handled>>

\* connection_timeout_interval.tick().await: the first tick is immediate
FirstTick ==
    /\ new_pc = "first_tick"
    /\ new_pc' = Following("first_tick")
    /\ UNCHANGED <<connection_timeout, running, events_left, network_events,
                   peers_added, subscribed, client_events_rx, is_connected,
                   new_result, inactive_left, broadcast_log, observed,
                   handled>>

\* Client::new returns: its locals, client_events_rx among them, are dropped
NewReturns(res) ==
    /\ new_result' = res
    /\ new_pc' = "returned"
    /\ subscribed' = FALSE
    /\ client_events_rx' = <<>>

\* select!: the tick of the interval; is_connected is false inside the loop
TimeoutTick ==
    /\ new_pc = "select"
    /\ IF ~is_connected
       THEN NewReturns(ConnectionTimeout(
                unwrap_or(connection_timeout, CONNECTION_TIMEOUT)))
       ELSE UNCHANGED <<new_result, new_pc, subscribed, client_events_rx>>
    /\ UNCHANGED <<connection_timeout, running, events_left, network_events,
                   peers_added, is_connected, inactive_left, broadcast_log,
                   observed, handled>>

\* select!: client_events_rx.recv() is Ok(event).  ConnectedToNetwork breaks
\* the loop: a new receiver is subscribed, the task that drains it is
\* spawned and Ok(client) is returned.  Any other event: the loop goes on.
ReceiveEvent ==
    /\ new_pc = "select"
    /\ client_events_rx # <<>>
    /\ observed' = Append(observed, Head(client_events_rx))
    /\ IF ends_connect_loop(Head(client_events_rx))
       THEN /\ is_connected' = TRUE
            /\ running' = running \cup {"events_drain"}
            /\ NewReturns(Ok)
       ELSE /\ client_events_rx' = Tail(client_events_rx)
            /\ UNCHANGED <<is_connected, running, new_result, new_pc,
                           subscribed>>
    /\ UNCHANGED <<connection_timeout, events_left, network_events,
                   peers_added, inactive_left, broadcast_log, handled>>

(***************************************************************************)
(* SpecNew: one call of Client::new; the swarm driver sends any network    *)
(* events, the tasks run on after the call returned.                       *)
(***************************************************************************)
\* the parts of the state Client::new does not touch
not_new_vars ==
    <<merge_vars, read_vars, audit_vars, follow_vars, upload_vars, call_vars,
      spend_vars, get_vars, wallet_vars>>

NewStart ==
    /\ connection_timeout \in ConnectionTimeouts
    /\ new_pc = StatementOrder[1]
    /\ running = {} /\ events_left = MaxEvents /\ network_events = <<>>
    /\ peers_added = 0 /\ subscribed = FALSE /\ client_events_rx = <<>>
    /\ is_connected = FALSE /\ new_result = None
    /\ inactive_left = MaxInactive
    /\ broadcast_log = <<>> /\ observed = <<>> /\ handled = <<>>

InitNew ==
    /\ NewStart
    /\ MergeIdle /\ ReadIdle /\ AuditIdle /\ FollowIdle /\ UploadIdle
    /\ CallIdle
    /\ SpendIdle /\ GetIdle /\ WalletIdle

NextNew ==
    \/ Subscribe
    \/ SpawnSwarmDriver
    \/ SpawnDial
    \/ SpawnEventHandler
    \/ DialEnds
    \/ \E event \in NetworkEvents : DriverSends(event)
    \/ HandlerReceives
    \/ HandlerInactive
    \/ FirstTick
    \/ TimeoutTick
    \/ ReceiveEvent

SpecNew == InitNew /\ [][NextNew /\ UNCHANGED not_new_vars]_vars

(***************************************************************************)
(* Claims about Client::new (SpecNew).                                     *)
(***************************************************************************)
\* how many of the first n network events handled were PeerAdded
PeersAddedBy(n) == Cardinality({i \in 1..n : handled[i] = "PeerAdded"})

\* the calls of broadcast(ConnectedToNetwork), as indexes of the log
ConnectedBroadcasts ==
    {i \in DOMAIN broadcast_log :
        broadcast_log[i].event = ConnectedToNetwork}

\* the connect loop has received the event
Observed(event) == \E i \in DOMAIN observed : observed[i] = event

\* C27: peers_added counts the PeerAdded events handled and nothing else;
\* ConnectedToNetwork is broadcast only while handling a PeerAdded that
\* makes the count CLOSE_GROUP_SIZE or more, and the first broadcast of it
\* is made while handling the PeerAdded that makes it CLOSE_GROUP_SIZE.
C27_ConnectedAtCloseGroupSize ==
    /\ peers_added = PeersAddedBy(Len(handled))
    /\ \A i \in ConnectedBroadcasts :
          /\ handled[broadcast_log[i].at] = "PeerAdded"
          /\ PeersAddedBy(broadcast_log[i].at) >= CLOSE_GROUP_SIZE
    /\ \A n \in DOMAIN handled :
          (handled[n] = "PeerAdded" /\ PeersAddedBy(n) = CLOSE_GROUP_SIZE)
             => \E i \in ConnectedBroadcasts :
                   /\ broadcast_log[i].at = n
                   /\ \A j \in ConnectedBroadcasts : j >= i

\* ConnectedToNetwork was broadcast after another kind of event and the
\* PeerAdded events were handled
C27_Witness ==
    /\ ConnectedBroadcasts # {}
    /\ handled # <<>>
    /\ handled[1] # "PeerAdded"
    /\ handled[Len(handled)] = "PeerAdded"

\* C28: Client::new returns Ok only after its subscription received
\* ConnectedToNetwork, and then CLOSE_GROUP_SIZE peers or more were added;
\* it returns ConnectionTimeout(d), d the configured timeout or 180 s,
\* only when it has not received ConnectedToNetwork.
C28_OkOnlyAfterConnected ==
    /\ new_result.tag = "Ok" =>
          /\ Observed(ConnectedToNetwork)
          /\ PeersAddedBy(Len(handled)) >= CLOSE_GROUP_SIZE
    /\ new_result.tag = "ConnectionTimeout" =>
          /\ new_result.secs =
                IF connection_timeout = None THEN CONNECTION_TIMEOUT
                ELSE connection_timeout.secs
          /\ ~Observed(ConnectedToNetwork)

\* Ok was returned after another event had been received first
C28_Witness ==
    /\ new_result.tag = "Ok"
    /\ Len(observed) >= 2
    /\ observed[Len(observed)] = ConnectedToNetwork

\* C29: an inactivity timeout makes the event handler broadcast
\* InactiveClient(30 s) and go on running; once spawned the handler never
\* ends; and an InactiveClient received by the connect loop neither ends
\* the loop nor makes Client::new return.
C29_InactivityDoesNotEnd ==
    /\ [][inactive_left' < inactive_left =>
             /\ "event_handler" \in running'
             /\ Len(broadcast_log') = Len(broadcast_log) + 1
             /\ broadcast_log'[Len(broadcast_log')].event =
                   InactiveClient(INACTIVITY_TIMEOUT)]_vars
    /\ [][("event_handler" \in running) =>
              ("event_handler" \in running')]_vars
    /\ [][(/\ Len(observed') > Len(observed)
           /\ observed'[Len(observed')].event = "InactiveClient")
             => (new_pc' = "select" /\ new_result' = None)]_vars

\* the connect loop received InactiveClient and goes on, and the handler
\* has handled a network event that came after the timeout
C29_Witness ==
    /\ new_pc = "select"
    /\ \E i \in DOMAIN observed : observed[i].event = "InactiveClient"
    /\ \E i \in DOMAIN broadcast_log :
          /\ broadcast_log[i].event.event = "InactiveClient"
          /\ Len(handled) > broadcast_log[i].at

\* C30: client_events_rx exists from before the swarm driver and the event
\* handler run until Client::new returns, so every ConnectedToNetwork
\* broadcast before the return is received by it.
C30_SubscribedBeforeSpawns ==
    /\ (running \cap {"swarm_driver", "event_handler"} # {}
           /\ new_pc # "returned") => subscribed
    /\ \A i \in ConnectedBroadcasts :
          ~broadcast_log[i].returned => broadcast_log[i].received

\* ConnectedToNetwork was broadcast before Client::new reached its connect
\* loop, and waits in client_events_rx
C30_Witness ==
    /\ new_pc = "first_tick"
    /\ \E i \in DOMAIN client_events_rx :
          client_events_rx[i] = ConnectedToNetwork

(***************************************************************************)
(* Client::verify_uploaded_chunks: a task is spawned for each chunk of a   *)
(* batch and the batch is joined; the tasks run on their own.              *)
(***************************************************************************)
MaxChunks == 3      \* the length of chunks_paths
MaxBatch  == 2      \* batch_size

\* what the task of a chunk meets: the chunk is stored, its proof of
\* existence fails, the record cannot be serialized, or std::fs::read fails
ChunkOutcomes == {"stored", "proof_fails", "serialize_fails", "unreadable"}

\* chunks_paths: chunk i is (name i, path i); only what its task will meet
\* tells two chunks apart
ChunksPaths(len) == [1..len -> ChunkOutcomes]

\* client.verify_chunk_stored(&chunk): a failed verify_chunk_existence is
\* logged, the result is Ok(()); only try_serialize_record fails it
verify_chunk_stored(outcome) ==
    IF outcome = "serialize_fails" THEN [tag |-> "Err"] ELSE Ok

\* the value of the task of chunk i: Err(ChunksError) when the file cannot
\* be read, else Ok(((name, chunk_path), res.is_err()))
task_result(i, outcome) ==
    IF outcome = "unreadable"
    THEN [tag |-> "Err", chunk |-> i, failed |-> FALSE]
    ELSE [tag |-> "Ok", chunk |-> i,
          failed |-> verify_chunk_stored(outcome).tag = "Err"]

\* chunks_paths.chunks(batch_size): the indexes of the batch that starts at
\* an index
batch(start) ==
    {i \in DOMAIN chunks_paths : i >= start /\ i < start + batch_size}

\* for result in verify_results { if let (.., true) = result?? { push } }:
\* the first Err returns, else the failed chunks are pushed in order
RECURSIVE check_results(_, _, _)
check_results(failed, i, last) ==
    IF i > last THEN [tag |-> "Ok", failed_chunks |-> failed]
    ELSE LET res == task_result(i, chunks_paths[i])
         IN  IF res.tag = "Err" THEN [tag |-> "ChunksError", chunk |-> i]
             ELSE check_results(IF res.failed THEN Append(failed, i)
                                ELSE failed, i + 1, last)

UploadReturns(res) ==
    /\ upload_result' = res
    /\ upload_pc' = "done"

\* for chunks_batch in chunks_paths.chunks(batch_size): tokio::spawn for
\* each chunk of the batch; after the last batch, Ok(failed_chunks)
SpawnBatch ==
    /\ upload_pc = "batch"
    /\ IF batch(batch_start) = {}
       THEN /\ UploadReturns([tag |-> "Ok", failed_chunks |-> failed_chunks])
            /\ UNCHANGED verify_handles
       ELSE /\ verify_handles' =
                  [i \in DOMAIN verify_handles |->
                      IF i \in batch(batch_start) THEN "running"
                      ELSE verify_handles[i]]
            /\ upload_pc' = "join"
            /\ UNCHANGED upload_result
    /\ UNCHANGED <<chunks_paths, batch_size, batch_start, failed_chunks,
                   ran_detached>>

\* a spawned task runs to its end, whatever became of the call
TaskFinishes(i) ==
    /\ i \in DOMAIN verify_handles
    /\ verify_handles[i] = "running"
    /\ verify_handles' = [verify_handles EXCEPT ![i] = "finished"]
    /\ ran_detached' = IF upload_pc \in {"done", "dropped"}
                       THEN ran_detached \cup {i} ELSE ran_detached
    /\ UNCHANGED <<chunks_paths, batch_size, batch_start, failed_chunks,
                   upload_pc, upload_result>>

\* join_all(verify_handles).await returns, then the results are checked
JoinBatch ==
    /\ upload_pc = "join"
    /\ \A i \in batch(batch_start) : verify_handles[i] = "finished"
    /\ LET last == CHOOSE i \in batch(batch_start) :
                       \A j \in batch(batch_start) : j <= i
           checked == check_results(failed_chunks, batch_start, last)
       IN  IF checked.tag = "ChunksError"
           THEN /\ UploadReturns(checked)
                /\ UNCHANGED <<failed_chunks, batch_start>>
           ELSE /\ failed_chunks' = checked.failed_chunks
                /\ batch_start' = batch_start + batch_size
                /\ upload_pc' = "batch"
                /\ UNCHANGED upload_result
    /\ UNCHANGED <<chunks_paths, batch_size, verify_handles, ran_detached>>

\* the future of verify_uploaded_chunks is dropped while it awaits
\* join_all: the JoinHandles are dropped, which does not abort the tasks
UploadDropped ==
    /\ upload_pc = "join"
    /\ upload_pc' = "dropped"
    /\ UNCHANGED <<chunks_paths, batch_size, batch_start, verify_handles,
                   failed_chunks, upload_result, ran_detached>>

(***************************************************************************)
(* SpecUpload: one call of verify_uploaded_chunks.  SpecCancel: one outer  *)
(* operation of the client (Client::new, follow_spend or                   *)
(* verify_uploaded_chunks) that runs, returns or is dropped.               *)
(***************************************************************************)
\* the parts of the state verify_uploaded_chunks does not touch
not_upload_vars ==
    <<merge_vars, read_vars, audit_vars, follow_vars, new_vars, call_vars,
      spend_vars, get_vars, wallet_vars>>

UploadStart ==
    /\ \E len \in 1..MaxChunks :
          /\ chunks_paths \in ChunksPaths(len)
          /\ verify_handles = [i \in 1..len |-> "unspawned"]
    /\ batch_size \in 1..MaxBatch
    /\ batch_start = 1
    /\ failed_chunks = <<>>
    /\ upload_pc = "batch" /\ upload_result = None /\ ran_detached = {}

InitUpload ==
    /\ UploadStart
    /\ MergeIdle /\ ReadIdle /\ AuditIdle /\ FollowIdle /\ NewIdle
    /\ CallIdle
    /\ SpendIdle /\ GetIdle /\ WalletIdle

NextUpload ==
    \/ SpawnBatch
    \/ \E i \in 1..MaxChunks : TaskFinishes(i)
    \/ JoinBatch
    \/ UploadDropped

SpecUpload == InitUpload /\ [][NextUpload /\ UNCHANGED not_upload_vars]_vars

InitCancel ==
    \/ InitNew
    \/ /\ FollowStart
       /\ find_royalties = FALSE
       /\ redeem_outcome = "deposited"
       /\ OthersIdle
    \/ InitUpload

NextCancel ==
    \/ NextNew /\ UNCHANGED not_new_vars
    \/ NextFollow /\ UNCHANGED not_follow_vars
    \/ NextUpload /\ UNCHANGED not_upload_vars

SpecCancel == InitCancel /\ [][NextCancel]_vars

\* C26: when an outer operation is dropped or returns early, nothing it
\* started runs on: after Client::new returned ConnectionTimeout none of
\* the swarm driver, dial and event handler tasks runs; no fetch of
\* follow_spend is in flight once its future is dropped; and no
\* verification task of verify_uploaded_chunks runs once the call has
\* returned or was dropped.
C26_NothingOutlivesTheCall ==
    /\ new_result.tag = "ConnectionTimeout" =>
          running \cap {"swarm_driver", "dial", "event_handler"} = {}
    /\ follow_pc = "dropped" => in_flight = {}
    /\ upload_pc \in {"done", "dropped"} =>
          \A i \in DOMAIN verify_handles : verify_handles[i] # "running"

(***************************************************************************)
(* Claims on the chunk verification, the spend signature, the peers of a   *)
(* node, the audit walks, the spend and register uploads and the wallet.   *)
(***************************************************************************)
\* the chunks of chunks_paths whose verification did not succeed: the proof
\* of existence failed or the record could not be built
FailedVerification ==
    {i \in DOMAIN chunks_paths :
        chunks_paths[i] \in {"proof_fails", "serialize_fails"}}

\* C31: verify_uploaded_chunks returns exactly the chunks whose existence
\* verification failed: a chunk whose proof challenge fails is in the
\* returned list, a chunk that verifies is not.
C31_FailedProofsAreReturned ==
    (upload_pc = "done" /\ upload_result.tag = "Ok") =>
        Range(upload_result.failed_chunks) = FailedVerification

(***************************************************************************)
(* A SignedSpend of which one field is replaced after it was signed, and   *)
(* SignedSpend::verify on the result.                                      *)
(***************************************************************************)
\* what is outside the spend, the peers, the store and the register calls
not_call_vars ==
    <<get_vars, wallet_vars, merge_vars, read_vars, audit_vars, follow_vars,
      new_vars, upload_vars>>

Reasons      == {0, 1}              \* Hash values of reason
RoyaltyLists == {<<>>, <<"d1">>}    \* network_royalties: Vec<DerivationIndex>

\* transactions of at most one input and one output
SmallSpentTxs  == {tx \in SpentTxs : Len(tx.inputs) <= 1}
SmallParentTxs == {tx \in ParentTxs : Len(tx.outputs) <= 1}

\* the spends that differ from a spend in exactly one field
AlteredSpends(spend) ==
    UNION { {[spend EXCEPT !.unique_pubkey = k] : k \in UniquePubkeys},
            {[spend EXCEPT !.spent_tx = tx] : tx \in SmallSpentTxs},
            {[spend EXCEPT !.reason = r] : r \in Reasons},
            {[spend EXCEPT !.token = t] : t \in Amounts},
            {[spend EXCEPT !.parent_tx = tx] : tx \in SmallParentTxs},
            {[spend EXCEPT !.network_royalties = l] : l \in RoyaltyLists} }
        \ {spend}

\* the spends signed by their owner that pass verify
ValidSignedSpends ==
    {ss \in {Signed(sp, sp.unique_pubkey)
                : sp \in [unique_pubkey : UniquePubkeys,
                          spent_tx : SmallSpentTxs,
                          reason : Reasons, token : Amounts,
                          parent_tx : SmallParentTxs,
                          network_royalties : RoyaltyLists]} :
        verify(ss, TxHash(ss.spend.spent_tx)) = Ok}

InitAlter ==
    /\ signed_spend \in ValidSignedSpends
    /\ spent_tx_hash = None /\ verify_result = None
    /\ GetIdle /\ WalletIdle /\ ClientIdle

\* the Spend is replaced, derived_key_sig is kept; the verifier expects
\* the hash of the transaction the spend names
Alter ==
    /\ altered = None
    /\ \E spend \in AlteredSpends(signed_spend.spend) :
          /\ altered' = [signed_spend EXCEPT !.spend = spend]
          /\ spent_tx_hash' = TxHash(spend.spent_tx)
    /\ UNCHANGED <<signed_spend, verify_result, not_call_vars, peers_vars,
                   verify_store, store_vars, register_vars>>

VerifyAltered ==
    /\ altered # None /\ verify_result = None
    /\ verify_result' = verify(altered, spent_tx_hash)
    /\ UNCHANGED <<signed_spend, spent_tx_hash, altered, not_call_vars,
                   peers_vars, verify_store, store_vars, register_vars>>

NextAlter == Alter \/ VerifyAltered
SpecAlter == InitAlter /\ [][NextAlter]_vars

\* the fields in which the altered spend differs from the signed one
AlteredFields ==
    {f \in {"unique_pubkey", "spent_tx", "reason", "token", "parent_tx",
            "network_royalties"} : altered.spend[f] # signed_spend.spend[f]}

\* C32: the signature covers the whole Spend: two Spends that differ in any
\* field have different signed bytes, and a SignedSpend altered in any field
\* after signing, network_royalties included, no longer passes verify.
C32_SignatureCoversWholeSpend ==
    altered # None =>
        /\ to_bytes(altered.spend) # to_bytes(signed_spend.spend)
        /\ verify_result # None => verify_result.tag # "Ok"

(***************************************************************************)
(* sn_peers_acquisition: get_peers_from_args.  The cargo features, the     *)
(* environment and the answer of the network-contacts download are inputs. *)
(***************************************************************************)
MaxPeers == 2       \* --peer arguments, and entries of SAFE_PEERS

Features == {"local-discovery", "network-contacts", "quic"}

\* the strings of SAFE_PEERS entries: a socket address, two multiaddr
\* strings and one that is neither
PeerStrs == {"1.2.3.4:1200", "/ip4/1.2.3.4/tcp/1200",
             "/ip4/1.2.3.4/udp/1200/quic-v1", "junk"}
Multiaddrs == {"/ip4/1.2.3.4/tcp/1200", "/ip4/1.2.3.4/udp/1200/quic-v1",
               "/ip4/5.6.7.8/tcp/1200"}

\* parse_peer_addr(addr): a SocketAddrV4 becomes /ip4/<ip>/tcp/<port>, or
\* /ip4/<ip>/udp/<port>/quic-v1 with the quic feature; a multiaddr string
\* is taken as it is; anything else is InvalidPeerAddr
parse_peer_addr(addr, feats) ==
    IF addr = "1.2.3.4:1200"
    THEN [tag |-> "Ok",
          addr |-> IF "quic" \in feats THEN "/ip4/1.2.3.4/udp/1200/quic-v1"
                   ELSE "/ip4/1.2.3.4/tcp/1200"]
    ELSE IF addr \in Multiaddrs THEN [tag |-> "Ok", addr |-> addr]
    ELSE [tag |-> "InvalidPeerAddr"]

\* for peer_str in safe_peers_str.split(','): the parsed entries are pushed,
\* the others are printed and skipped
RECURSIVE push_safe_peers(_, _, _)
push_safe_peers(peers, strs, feats) ==
    IF strs = <<>> THEN peers
    ELSE LET parsed == parse_peer_addr(Head(strs), feats)
         IN  push_safe_peers(IF parsed.tag = "Ok"
                             THEN Append(peers, parsed.addr) ELSE peers,
                             Tail(strs), feats)

\* get_network_contacts: without the feature, Ok(vec![])
get_network_contacts(feats, contacts) ==
    IF "network-contacts" \in feats THEN contacts
    ELSE [tag |-> "Ok", peers |-> <<>>]

\* from `if let Ok(safe_peers_str) = std::env::var(SAFE_PEERS_ENV)` to the
\* shuffle: the peers before they are shuffled, or PeersNotObtained
with_safe_peers(peers, env, feats) ==
    LET all == IF env.tag = "Ok"
               THEN push_safe_peers(peers, env.value, feats)
               ELSE peers
    IN  IF all = <<>> THEN [tag |-> "PeersNotObtained"]
        ELSE [tag |-> "Ok", peers |-> all]

\* get_peers_from_args up to the shuffle
peers_before_shuffle(a, feats, env, contacts) ==
    IF a.first THEN [tag |-> "Ok", peers |-> <<>>]
    ELSE IF a.peers # <<>> THEN with_safe_peers(a.peers, env, feats)
    ELSE IF "local-discovery" \in feats THEN [tag |-> "Ok", peers |-> <<>>]
    ELSE IF "network-contacts" \in feats
    THEN LET got == get_network_contacts(feats, contacts)
         IN  IF got.tag = "Ok" THEN with_safe_peers(got.peers, env, feats)
             ELSE got
    ELSE with_safe_peers(<<>>, env, feats)

\* peers.shuffle(&mut rng): any order of the same elements
Shuffles(peers) ==
    {[i \in DOMAIN peers |-> peers[p[i]]] :
        p \in {q \in [DOMAIN peers -> DOMAIN peers] :
                  \A i, j \in DOMAIN peers : q[i] = q[j] => i = j}}

PeersArgs ==
    [first : BOOLEAN,
     peers : UNION {[1..n -> Multiaddrs] : n \in 0..MaxPeers}]
\* std::env::var: NotPresent, or the value, split at the commas
SafePeersEnv ==
    {[tag |-> "NotPresent"]}
    \cup {[tag |-> "Ok", value |-> strs] :
             strs \in UNION {[1..n -> PeerStrs] : n \in 1..MaxPeers}}
NetworkContacts ==
    {[tag |-> "NetworkContactsUnretrievable"],
     [tag |-> "Ok", peers |-> <<"/ip4/5.6.7.8/tcp/1200">>]}

InitPeers ==
    /\ args \in PeersArgs
    /\ features \in SUBSET Features
    /\ safe_peers \in SafePeersEnv
    /\ network_contacts \in NetworkContacts
    /\ peers_result = None
    /\ altered = None /\ verify_store = FALSE /\ StoreIdle /\ RegisterIdle
    /\ MergeIdle /\ ReadIdle /\ AuditIdle /\ FollowIdle /\ NewIdle
    /\ UploadIdle
    /\ SpendIdle /\ GetIdle /\ WalletIdle

GetPeersFromArgs ==
    /\ peers_result = None
    /\ LET res == peers_before_shuffle(args, features, safe_peers,
                                       network_contacts)
       IN  IF res.tag = "Ok"
           THEN \E shuffled \in Shuffles(res.peers) :
                    peers_result' = [res EXCEPT !.peers = shuffled]
           ELSE peers_result' = res
    /\ UNCHANGED <<args, features, safe_peers, network_contacts, altered,
                   verify_store, store_vars, register_vars, spend_vars,
                   not_call_vars>>

NextPeers == GetPeersFromArgs
SpecPeers == InitPeers /\ [][NextPeers]_vars

\* how often an element is in a sequence
Occurrences(seq, x) == Cardinality({i \in DOMAIN seq : seq[i] = x})
IsPermutation(s, t) ==
    /\ Len(s) = Len(t)
    /\ \A x \in Range(s) \cup Range(t) : Occurrences(s, x) = Occurrences(t, x)

\* the --peer addresses followed by every parseable SAFE_PEERS entry
PeersAndSafePeers ==
    args.peers \o
    (IF safe_peers.tag # "Ok" THEN <<>>
     ELSE LET ok == SelectSeq(safe_peers.value,
                       LAMBDA str : parse_peer_addr(str, features).tag = "Ok")
          IN  [i \in DOMAIN ok |-> parse_peer_addr(ok[i], features).addr])

\* C33: with --first the result is empty; without it SAFE_PEERS is honoured
\* whenever it is set, whatever the features: if the --peer addresses
\* followed by the parseable SAFE_PEERS entries are not empty, the result is
\* Ok with a permutation of them.
C33_SafePeersAlwaysHonoured ==
    peers_result # None =>
        /\ args.first => peers_result = [tag |-> "Ok", peers |-> <<>>]
        /\ (~args.first /\ PeersAndSafePeers # <<>>) =>
              /\ peers_result.tag = "Ok"
              /\ IsPermutation(peers_result.peers, PeersAndSafePeers)

\* C34: in verify_spend a transaction is the Genesis terminator exactly when
\* it is GENESIS_CASHNOTE.src_tx and the fetched spends of its inputs are a
\* single spend of the Genesis key; it is then recorded as verified without
\* verify_against_inputs_spent and adds no parent to the next frontier;
\* every other transaction is verified against its input spends.
C34_GenesisTerminator ==
    [][\A tx \in AuditTxs :
          (processed' = Append(processed, tx) /\ AllFetched(spend_graph, tx))
          => IF IsGenesisTerminator(spend_graph, tx)
             THEN /\ verified_tx' = verified_tx \cup {tx}
                  /\ next_gen_tx' = next_gen_tx
                  /\ audit_result' = None
             ELSE IF PassesInputsSpent(spend_graph, tx)
             THEN /\ verified_tx' = verified_tx \cup {tx}
                  /\ next_gen_tx' = next_gen_tx \cup ParentsOf(spend_graph, tx)
                  /\ audit_result' = None
             ELSE /\ verified_tx' = verified_tx
                  /\ audit_result'.tag = "CouldNotVerifyTransfer"
                  /\ audit_result'.tx = tx]_vars

\* a walk has ended with Ok at a Genesis transaction that would not pass
\* verify_against_inputs_spent
C34_Witness ==
    /\ AuditDone /\ audit_result = Ok
    /\ GenesisTx \in verified_tx
    /\ IsGenesisTerminator(spend_graph, GenesisTx)
    /\ spend_graph.fault = NotConserving(GenesisTx)

(***************************************************************************)
(* SpecUnspent: one call of get_spend_from_network on any answer, or one   *)
(* call of follow_spend on any network.                                    *)
(***************************************************************************)
InitUnspent == InitGetSpend \/ InitFollow

NextUnspent ==
    \/ follow_pc = "off" /\ NextGetSpend
    \/ NextFollow /\ UNCHANGED not_follow_vars

SpecUnspent == InitUnspent /\ [][NextUnspent]_vars

\* the outputs of the transaction whose fetches are joined
JoinedOutputs == follow_net.outputs[descendant_tx]

\* join_all has returned and the turn of the for loop has run
JoinStep == follow_pc = "join" /\ follow_pc' \in {"for", "done", "panicked"}

\* C35: only an authoritative RecordNotFound counts as unspent:
\* get_spend_from_network gives MissingSpendRecord(address) for
\* RecordNotFound and CouldNotVerifyTransfer for every other network error
\* and for a double-spent or invalid spend; follow_spend adds an output to
\* the UTXO set only on MissingSpendRecord and returns an error on any
\* other fetch error.
C35_OnlyRecordNotFoundIsUnspent ==
    /\ [](get_spend_result # None =>
            /\ get_spend_result.tag = "MissingSpendRecord" <=>
                  record_response = [tag |-> "Err", err |-> "RecordNotFound"]
            /\ get_spend_result.tag = "MissingSpendRecord" =>
                  get_spend_result.address = address
            /\ (record_response.tag = "Err"
                  /\ record_response.err # "RecordNotFound") =>
                  get_spend_result.tag = "CouldNotVerifyTransfer"
            /\ get_spend_result.tag \in
                  {"Ok", "MissingSpendRecord", "CouldNotVerifyTransfer",
                   "RecordKindMismatch"})
    /\ [](follow_pc \notin {"off", "dropped"} =>
            \A k \in next_gen_utxos \cup all_utxos :
                follow_net.spent[k] = Unspent)
    /\ [][JoinStep =>
            IF \E k \in JoinedOutputs : follow_net.spent[k] = FetchFails
            THEN /\ follow_pc' = "done"
                 /\ follow_result'.tag = "CouldNotVerifyTransfer"
                 /\ next_gen_utxos' = next_gen_utxos
            ELSE follow_pc' = "for" =>
                    next_gen_utxos' = next_gen_utxos \cup
                        {k \in JoinedOutputs : follow_net.spent[k] = Unspent}
         ]_vars

\* a walk has collected an unspent output and then returned an error at an
\* output that could not be fetched
C35_Witness ==
    /\ FollowDone
    /\ follow_result.tag = "CouldNotVerifyTransfer"
    /\ next_gen_utxos \cup all_utxos # {}
    /\ \E k \in JoinedOutputs : follow_net.spent[k] = FetchFails

(***************************************************************************)
(* SpecFollowLive: one call of follow_spend whose future is polled until   *)
(* it ends, every fetch of the network coming back.                        *)
(***************************************************************************)
NextFollowLive ==
    \/ FollowFirstSpend
    \/ FollowWhileHead
    \/ \E tx \in FollowTxs : StartFetches(tx)
    \/ \E k \in FollowKeys : FetchCompletes(k)
    \/ JoinAll
    \/ FollowEndGeneration

SpecFollowLive ==
    /\ InitFollow
    /\ [][NextFollowLive /\ UNCHANGED not_follow_vars]_vars
    /\ WF_vars(NextFollowLive /\ UNCHANGED not_follow_vars)

\* the call has returned, or has panicked in redeem_royalties
FollowEnded == follow_pc \in {"done", "panicked"}

\* the transactions the spent outputs of a transaction were spent in
SpentIn(net, tx) ==
    {net.spent[k] : k \in {o \in net.outputs[tx] : net.spent[o] \in FollowTxs}}

\* a transaction that is a descendant of itself
OnCycle(net, tx) ==
    tx \in ReachedIn(net, SpentIn(net, tx), Cardinality(FollowTxs))

\* a transaction two outputs of which were spent in one transaction
TwoPathsFrom(net, tx) ==
    \E a, b \in net.outputs[tx] :
        a # b /\ net.spent[a] = net.spent[b] /\ net.spent[a] \in FollowTxs

\* C36: follow_spend ends on every finite spend graph, also when a
\* descendant transaction is reachable by several paths or lies on a cycle,
\* and it fetches the output spends of each transaction at most once.
C36_FollowTerminates ==
    /\ <>FollowEnded
    /\ [](follow_pc # "off" => \A tx \in FollowTxs : fetches_of[tx] <= 1)

\* a walk over a graph with a cycle and with two paths into one
\* transaction has returned Ok
C36_Witness ==
    /\ FollowDone /\ follow_result.tag = "Ok"
    /\ \E tx \in follow_verified_tx : OnCycle(follow_net, tx)
    /\ \E tx \in follow_verified_tx : TwoPathsFrom(follow_net, tx)
    /\ \A tx \in follow_verified_tx : fetches_of[tx] = 1

(***************************************************************************)
(* Client::network_store_spend.  network.get_closest_peers and             *)
(* network.put_record are collaborators: what they return is an input,     *)
(* what put_record is called with is recorded.                             *)
(***************************************************************************)
NetworkPeers == {"p1", "p2", "p3"}

\* get_closest_peers(&network_address, true): an error or the close group
ClosestPeers ==
    {[tag |-> "Err"]}
    \cup {[tag |-> "Ok", peers |-> ps] :
             ps \in {g \in SUBSET NetworkPeers :
                        Cardinality(g) = CLOSE_GROUP_SIZE}}

\* try_serialize_record fails, put_record fails to put the record to the
\* put quorum, its verification fails, or the record is put and verified
StoreOutcomes ==
    {"serialize_fails", "put_fails", "verification_fails", "stored"}

\* Record { key, value: try_serialize_record(&[spend], RecordKind::Spend) }
SpendRecord(spend) ==
    [key |-> from_unique_pubkey(spend.spend.unique_pubkey),
     kind |-> "Spend", value |-> <<spend>>]

SomeRecord(record) == [tag |-> "Some", record |-> record]

\* GetRecordCfg { get_quorum: Quorum::Majority, re_attempt: true,
\*                target_record: record_to_verify, expected_holders }
verification_cfg(record_to_verify, expected_holders) ==
    [get_quorum |-> "Majority", re_attempt |-> TRUE,
     target_record |-> record_to_verify,
     expected_holders |-> expected_holders]

\* the mutant of put_cfg: the put quorum is Majority
put_cfg_majority(verification) ==
    [put_quorum |-> "Majority", re_attempt |-> TRUE,
     use_put_record_to |-> None,
     verification |-> [tag |-> "Some", kind |-> "Network",
                       cfg |-> verification]]

\* PutRecordCfg { put_quorum: Quorum::All, re_attempt: true,
\*   use_put_record_to: None,
\*   verification: Some((VerificationKind::Network, verification_cfg)) }
put_cfg(verification) ==
    [put_quorum |-> "All", re_attempt |-> TRUE, use_put_record_to |-> None,
     verification |-> [tag |-> "Some", kind |-> "Network",
                       cfg |-> verification]]

\* network_store_spend(spend, verify_store): the call of put_record it
\* makes (None when it returns before) and its result
network_store_spend(spend, check_store, closest, outcome) ==
    IF outcome = "serialize_fails"
    THEN [put_call |-> None, result |-> [tag |-> "Err", from |-> "serialize"]]
    ELSE IF check_store /\ closest.tag = "Err"
    THEN [put_call |-> None,
          result |-> [tag |-> "Err", from |-> "get_closest_peers"]]
    ELSE LET record == SpendRecord(spend)
             cfg == IF check_store
                    THEN verification_cfg(SomeRecord(record), closest.peers)
                    ELSE verification_cfg(None, {})
         IN  [put_call |-> [record |-> record, put_cfg |-> put_cfg(cfg)],
              result |-> IF outcome = "stored" THEN Ok
                         ELSE [tag |-> "Err", from |-> outcome]]

InitStore ==
    /\ signed_spend \in SpendPool
    /\ spent_tx_hash = None /\ verify_result = None
    /\ verify_store \in BOOLEAN
    /\ closest_peers \in ClosestPeers
    /\ store_outcome \in StoreOutcomes
    /\ put_call = None /\ store_result = None
    /\ altered = None /\ PeersIdle /\ RegisterIdle
    /\ MergeIdle /\ ReadIdle /\ AuditIdle /\ FollowIdle /\ NewIdle
    /\ UploadIdle
    /\ GetIdle /\ WalletIdle

NetworkStoreSpend ==
    /\ store_result = None
    /\ LET call_ == network_store_spend(signed_spend, verify_store,
                                        closest_peers, store_outcome)
       IN  /\ put_call' = call_.put_call
           /\ store_result' = call_.result
    /\ UNCHANGED <<closest_peers, store_outcome, verify_store, altered,
                   peers_vars, register_vars, spend_vars, not_call_vars>>

NextStore == NetworkStoreSpend
SpecStore == InitStore /\ [][NextStore]_vars

\* C37: network_store_spend puts the spend record with put quorum All and
\* always asks for Network verification at get quorum Majority; verify_store
\* only decides whether the echo is compared with the submitted record by
\* the closest peers (target_record, expected_holders) or not; the call
\* returns Ok only if the put and that verification succeeded.
C37_AlwaysVerifiedAtMajority ==
    store_result # None =>
        /\ put_call # None =>
              /\ put_call.record.value = <<signed_spend>>
              /\ put_call.record.key =
                    from_unique_pubkey(signed_spend.spend.unique_pubkey)
              /\ put_call.put_cfg.put_quorum = "All"
              /\ put_call.put_cfg.verification.tag = "Some"
              /\ put_call.put_cfg.verification.kind = "Network"
              /\ LET cfg == put_call.put_cfg.verification.cfg
                 IN  /\ cfg.get_quorum = "Majority"
                     /\ IF verify_store
                        THEN /\ cfg.target_record.tag = "Some"
                             /\ cfg.target_record.record = put_call.record
                             /\ cfg.expected_holders = closest_peers.peers
                        ELSE /\ cfg.target_record = None
                             /\ cfg.expected_holders = {}
        /\ store_result = Ok =>
              (put_call # None /\ store_outcome = "stored")
        /\ (store_outcome = "stored"
              /\ (verify_store => closest_peers.tag = "Ok")) =>
              store_result = Ok

\* a spend was stored with verify_store = false although the close group
\* could not be found: the echo was asked for without a target record
C37_Witness ==
    /\ store_result = Ok
    /\ ~verify_store
    /\ closest_peers.tag = "Err"
    /\ put_call.put_cfg.verification.cfg.target_record = None

(***************************************************************************)
(* Client::create_and_pay_for_register.  ClientRegister::create_online and *)
(* the read of verify_register_stored are collaborators: what each attempt *)
(* meets is an input.                                                      *)
(***************************************************************************)
MaxAttempts == 3    \* create_online calls of one call
MaxTokens   == 5    \* the largest NanoTokens value (u64::MAX in the code)

\* what an attempt meets: create_online fails, or it returns (reg, cost,
\* royalties) and the register is then found stored or not
CreateOutcomes ==
    {[tag |-> "Err"]}
    \cup [tag : {"Ok"}, cost : {1, 2}, royalties : {0, 1}, stored : BOOLEAN]

\* NanoTokens::checked_add
checked_add(a, b) ==
    IF a + b > MaxTokens THEN [tag |-> "None"]
    ELSE [tag |-> "Some", value |-> a + b]

\* verify_register_stored(address).await.is_ok() after the n-th attempt
verify_register_stored(outcomes, n) == outcomes[n].stored

RegisterReturns(res) ==
    /\ register_result' = res
    /\ register_pc' = "done"

OkRegister(cost, royalties) ==
    [tag |-> "Ok", total_cost |-> cost, total_royalties |-> royalties]

\* let (reg, mut total_cost, mut total_royalties) =
\*     ClientRegister::create_online(.., false).await?;
\* and, without verify_store, Ok((reg, total_cost, total_royalties))
CreateOnline ==
    /\ register_pc = "create"
    /\ LET made == create_outcomes[1]
       IN  IF made.tag = "Err"
           THEN /\ RegisterReturns([tag |-> "Err", from |-> "create_online"])
                /\ UNCHANGED <<attempts, total_cost, total_royalties>>
           ELSE /\ attempts' = Append(attempts,
                       [cost |-> made.cost, royalties |-> made.royalties])
                /\ total_cost' = made.cost
                /\ total_royalties' = made.royalties
                /\ IF verify_store
                   THEN register_pc' = "verify" /\ UNCHANGED register_result
                   ELSE RegisterReturns(OkRegister(made.cost, made.royalties))
    /\ UNCHANGED <<create_outcomes, verify_store, verify_reads, last_verify>>

\* stored = self.verify_register_stored(*reg_address).await.is_ok(); and,
\* when the loop is not entered again, Ok((reg, total_cost, total_royalties))
VerifyRegisterStored ==
    /\ register_pc = "verify"
    /\ verify_reads' = verify_reads + 1
    /\ LET stored == verify_register_stored(create_outcomes, Len(attempts))
       IN  /\ last_verify' = IF stored THEN Ok ELSE [tag |-> "Err"]
           /\ IF stored
              THEN RegisterReturns(OkRegister(total_cost, total_royalties))
              ELSE register_pc' = "retry" /\ UNCHANGED register_result
    /\ UNCHANGED <<create_outcomes, verify_store, attempts, total_cost,
                   total_royalties>>

\* one turn of `while !stored` up to the verification: create_online(..,
\* true), total_cost = total_cost.checked_add(top_up_cost), total_royalties
\* = total_cost.checked_add(royalties_top_up)
RetryCreateOnline ==
    /\ register_pc = "retry"
    /\ Len(attempts) < MaxAttempts
    /\ LET made == create_outcomes[Len(attempts) + 1]
       IN  IF made.tag = "Err"
           THEN /\ RegisterReturns([tag |-> "Err", from |-> "create_online"])
                /\ UNCHANGED <<attempts, total_cost, total_royalties>>
           ELSE LET cost == checked_add(total_cost, made.cost)
                IN  /\ attempts' = Append(attempts,
                           [cost |-> made.cost, royalties |-> made.royalties])
                    /\ IF cost.tag = "None"
                       THEN /\ RegisterReturns([tag |-> "TotalPriceTooHigh"])
                            /\ UNCHANGED <<total_cost, total_royalties>>
                       ELSE LET royalties ==
                                   checked_add(cost.value, made.royalties)
                            IN  /\ total_cost' = cost.value
                                /\ IF royalties.tag = "None"
                                   THEN /\ RegisterReturns(
                                             [tag |-> "ExcessiveNanoValue"])
                                        /\ UNCHANGED total_royalties
                                   ELSE /\ total_royalties' = royalties.value
                                        /\ register_pc' = "verify"
                                        /\ UNCHANGED register_result
    /\ UNCHANGED <<create_outcomes, verify_store, verify_reads, last_verify>>

InitRegister ==
    /\ verify_store \in BOOLEAN
    /\ create_outcomes \in [1..MaxAttempts -> CreateOutcomes]
    /\ attempts = <<>> /\ verify_reads = 0 /\ last_verify = None
    /\ total_cost = 0 /\ total_royalties = 0
    /\ register_pc = "create" /\ register_result = None
    /\ altered = None /\ PeersIdle /\ StoreIdle
    /\ MergeIdle /\ ReadIdle /\ AuditIdle /\ FollowIdle /\ NewIdle
    /\ UploadIdle
    /\ SpendIdle /\ GetIdle /\ WalletIdle

NextRegister ==
    \/ CreateOnline
    \/ VerifyRegisterStored
    \/ RetryCreateOnline

SpecRegister ==
    InitRegister
    /\ [][NextRegister /\ UNCHANGED <<altered, peers_vars, store_vars,
                                      spend_vars, not_call_vars>>]_vars

\* the sum of a field over the attempts made
RECURSIVE SumOf(_, _)
SumOf(seq, field) ==
    IF seq = <<>> THEN 0 ELSE Head(seq)[field] + SumOf(Tail(seq), field)

\* C38: with verify_store the call returns Ok only after a
\* verify_register_stored succeeded, repeating create_online until then,
\* and the totals are the sums over all attempts: total_cost of the costs,
\* total_royalties of the royalties.  Without verify_store one create_online
\* is made and no verification read.
C38_TotalsAreSumsOverAttempts ==
    register_result.tag = "Ok" =>
        /\ verify_store =>
              (last_verify = Ok /\ verify_reads = Len(attempts))
        /\ ~verify_store => (Len(attempts) = 1 /\ verify_reads = 0)
        /\ register_result.total_cost = SumOf(attempts, "cost")
        /\ register_result.total_royalties = SumOf(attempts, "royalties")

(***************************************************************************)
(* SpecWalletSpent: one process opens a wallet directory that holds a cash *)
(* note or a payment stored earlier, and then calls up to MaxOps           *)
(* operations; no disk error.                                              *)
(***************************************************************************)
\* a wallet file written earlier, with NoteA available
StoredNoteWallet ==
    [available_cash_notes |-> [id \in {NoteA.unique_pubkey} |-> NoteA.value],
     payment_transactions |-> EmptyMap]

InitWalletSpent ==
    /\ disk_main_pubkey = "pk1"
    /\ disk_wallet \in {StoredNoteWallet, StoredPaymentWallet}
    /\ disk_cash_notes = DOMAIN disk_wallet.available_cash_notes
    /\ lock_holder = 0
    /\ InitProcs([p \in Procs |-> IF p = 1 THEN "start" ELSE "off"],
                 [p \in Procs |-> IF p = 1 THEN MaxOps + 1 ELSE 0])
    /\ SpendIdle /\ GetIdle /\ ClientIdle

SpecWalletSpent ==
    InitWalletSpent
    /\ [][NextWalletPay /\ UNCHANGED <<spend_vars, get_vars, client_vars>>]_vars

\* deposit_and_store_to_disk or reload has returned Ok to a wallet that was
\* open before the call
ReloadingCallDone(p) ==
    /\ pc[p] = "idle"
    /\ call[p].op \in {"deposit_and_store_to_disk", "reload"}
    /\ result[p] = Ok
    /\ before[p].wallet # None

\* the notes of the call that are derived from the wallet's key
DepositedBy(p) ==
    IF call[p].op = "deposit_and_store_to_disk"
    THEN {call[p].notes[i].unique_pubkey : i \in
             {j \in DOMAIN call[p].notes :
                 call[p].notes[j].owner = wallet[p].main_pubkey}}
    ELSE {}

\* C39: a cash note removed by mark_notes_as_spent stays absent after a
\* later deposit_and_store_to_disk of other notes and after a later reload:
\* what was changed in memory only (mark_notes_as_spent,
\* insert_payment_transaction, deposit) is not undone by the reload.
C39_InMemoryStateSurvivesReload ==
    \A p \in Procs :
        ReloadingCallDone(p) =>
            LET old == before[p].wallet.keyless_wallet
                new == wallet[p].keyless_wallet
            IN  /\ DOMAIN new.available_cash_notes \ DepositedBy(p)
                      \subseteq DOMAIN old.available_cash_notes
                /\ DOMAIN old.available_cash_notes
                      \subseteq DOMAIN new.available_cash_notes
                /\ DOMAIN old.payment_transactions
                      \subseteq DOMAIN new.payment_transactions

\* C40: deposit_and_store_to_disk persists the wallet in memory whenever it
\* returns Ok, also for an empty note list: after cash notes were loaded
\* into the wallet in memory and the call was made with an empty list, the
\* wallet file holds the increased balance.
C40_OkMeansPersisted ==
    \A p \in Procs :
        (DepositAndStoreDone(p) /\ result[p] = Ok) =>
            /\ disk_wallet = wallet[p].keyless_wallet
            /\ balance(disk_wallet) = balance(wallet[p].keyless_wallet)

====
